---- MODULE Spec2Model ----
(***************************************************************************)
(* Unified connector framework: the resilient provider clients (Jira and   *)
(* Confluence), the connector operations that open and close them, and    *)
(* the registry/manager dispatch.                                          *)
(*                                                                         *)
(* Time is counted in ticks of 30 seconds (the refresh safety margin of   *)
(* set_token is one tick).  The clock starts at 1: time.time() is never 0. *)
(* httpx semantics assumed: Response.raise_for_status raises for every    *)
(* non-2xx status; AsyncClient does not follow redirects by default.      *)
(***************************************************************************)
EXTENDS Integers, Sequences, FiniteSets, TLC

\* ------------------------------------------------------------------ bounds
MaxCalls == 2
MaxTime == 2
MaxLife == 2
MaxInst == 6
MaxJobs == 2
MaxPageSize == 3

\* ------------------------------------------------------- program constants
DefaultMaxRetries == 4
RefreshMargin == 1
NoneVal == -1

CallIds == 1..MaxCalls
Forever == MaxTime + MaxLife + 1

Max(a, b) == IF a >= b THEN a ELSE b
Min(a, b) == IF a <= b THEN a ELSE b

Providers == {"jira", "confluence"}
ListOps == {"containers", "items", "comments"}
Ops == ListOps \cup {"create"}

\* ------------------------------------------------------------ configuration
\* A caller's config dict, by which keys are present / truthy.
\* base_url: "absent" | "valid"; auth_method: "absent" | a string.
ConfigRec(b, m, at, rt, em, tk) ==
    [base_url |-> b, auth_method |-> m, access_token |-> at,
     refresh_token |-> rt, api_email |-> em, api_token |-> tk]

InvalidConfigs ==
    { ConfigRec("absent", "oauth2", TRUE, TRUE, FALSE, FALSE),
      ConfigRec("valid", "absent", TRUE, FALSE, FALSE, FALSE),
      ConfigRec("absent", "absent", FALSE, FALSE, FALSE, FALSE) }

ApiKeyConfigs ==
    { ConfigRec("valid", "api_key", FALSE, FALSE, em, tk) : em \in BOOLEAN, tk \in BOOLEAN }

OAuthConfigs ==
    { ConfigRec("valid", "oauth2", at, rt, FALSE, FALSE) : at \in BOOLEAN, rt \in BOOLEAN }

OtherMethodConfigs ==
    { ConfigRec("valid", "basic", TRUE, TRUE, TRUE, TRUE) }

Configs == InvalidConfigs \cup ApiKeyConfigs \cup OAuthConfigs \cup OtherMethodConfigs

NoConfig == ConfigRec("absent", "absent", FALSE, FALSE, FALSE, FALSE)

\* JiraConnectorConfig / ConfluenceConnectorConfig: base_url and auth_method
\* are the required fields (Field(...)); auth_method is any string.
AtlassianConfigValid(config) ==
    config.base_url = "valid" /\ config.auth_method # "absent"

\* ------------------------------------------------------------ auth strategy
NoAuth ==
    [method |-> "unbuilt", access_token |-> NoneVal, refresh_token |-> FALSE,
     api_email |-> FALSE, api_token |-> FALSE, exp |-> NoneVal]

\* Variant: a configured access token is taken to be valid for the whole run.
BuildAuthAssumingFresh(config) ==
    [method |-> config.auth_method,
     access_token |-> IF config.access_token THEN 0 ELSE NoneVal,
     refresh_token |-> config.refresh_token,
     api_email |-> config.api_email,
     api_token |-> config.api_token,
     exp |-> IF config.access_token THEN Forever ELSE NoneVal]

\* JiraAuth.__init__ / ConfluenceAuth.__init__ as called by _client(cfg):
\* the configured access token is token 0, no expiry is recorded.
BuildAuth(config) ==
    [method |-> config.auth_method,
     access_token |-> IF config.access_token THEN 0 ELSE NoneVal,
     refresh_token |-> config.refresh_token,
     api_email |-> config.api_email,
     api_token |-> config.api_token,
     exp |-> NoneVal]

\* Variant: one strategy instance cached and handed to every call.
AuthOfCached(c) == CHOOSE d \in CallIds : \A e \in CallIds : d <= e

\* Which strategy instance the client of call c holds: _client(cfg) constructs
\* a new JiraAuth / ConfluenceAuth and a new client around it on every call.
AuthOf(c) == c

\* set_token(token, expires_in) at time t.
SetToken(a, token, expires_in, t) ==
    [a EXCEPT !.access_token = token,
              !.exp = IF expires_in # NoneVal /\ expires_in # 0
                      THEN t + Max(0, expires_in - RefreshMargin)
                      ELSE @]

\* "self.access_token and self._access_token_exp and time.time() < exp"
TokenUnexpired(a, t) ==
    a.access_token # NoneVal /\ a.exp # NoneVal /\ t < a.exp

\* Variant: refresh_if_needed that ignores the recorded expiry.
NeedsRefreshIgnoringExpiry(a, t) ==
    a.method = "oauth2" /\ a.refresh_token

\* Variant: refresh_if_needed that refreshes only when no access token is held.
NeedsRefreshOnlyWithoutToken(a, t) ==
    a.method = "oauth2" /\ a.access_token = NoneVal /\ a.refresh_token

\* refresh_if_needed goes on to the token endpoint exactly when this holds.
NeedsRefresh(a, t) ==
    /\ a.method = "oauth2"
    /\ ~TokenUnexpired(a, t)
    /\ a.refresh_token

\* Variant: auth_headers that accepts an api_key config with one of the two.
CanBuildHeadersEitherKey(a) ==
    IF a.method = "api_key"
    THEN a.api_email \/ a.api_token
    ELSE a.access_token # NoneVal

\* auth_headers() returns headers (TRUE) or raises ValueError (FALSE).
CanBuildHeaders(a) ==
    IF a.method = "api_key"
    THEN a.api_email /\ a.api_token
    ELSE a.access_token # NoneVal

\* The credential the Authorization header carries: Basic (api_key) or the
\* bearer token's identity.
BasicCred == 0 - 2
HeaderCred(a) == IF a.method = "api_key" THEN BasicCred ELSE a.access_token

\* Response.raise_for_status()
RaisesForStatus(status) == status \notin 200..299

\* Does the refresh exchange raise the status error for this token-endpoint
\* status?  Jira: "if resp.status_code >= 400: ... resp.raise_for_status()".
\* Confluence: "resp.raise_for_status()".
RefreshRaises(provider, status) ==
    IF provider = "jira"
    THEN status >= 400 /\ RaisesForStatus(status)
    ELSE RaisesForStatus(status)

\* --------------------------------------------------------------- executor
RetryableStatuses == {429, 500, 502, 503, 504}

\* Variant: every 5xx status retried.
IsRetryableAny5xx(status) == status = 429 \/ status >= 500

IsRetryable(status) == status \in RetryableStatuses

\* Variant: one attempt too many.
BudgetSpentLate(att, max_retries) == att > max_retries + 1

BudgetSpent(att, max_retries) == att > max_retries

\* float(resp.headers.get("Retry-After", "0") or 0.0): raises ValueError for
\* a value float() cannot parse (an HTTP date).
RetryAfterKinds == {"absent", "empty", "seconds", "date"}
RetryAfterParses(ra) == ra # "date"

\* ------------------------------------------------------------ environment
ExpiresIns == {NoneVal, 0} \cup (1..MaxLife)

\* What the token endpoint may answer to one refresh exchange.
TokenResp(s, tok, e, js) ==
    [kind |-> "resp", status |-> s, has_token |-> tok, expires_in |-> e, json |-> js]
TokenTimeout ==
    [kind |-> "timeout", status |-> 0, has_token |-> FALSE, expires_in |-> NoneVal, json |-> FALSE]
TokenStatuses == {200, 302, 400, 503}
TokenOutcomes ==
    {TokenTimeout}
    \cup { TokenResp(s, tok, e, TRUE) : s \in {200, 302}, tok \in BOOLEAN, e \in ExpiresIns }
    \cup { TokenResp(s, FALSE, NoneVal, FALSE) : s \in TokenStatuses }

\* The real lifetime of a token issued with expires_in = e.
TrueLife(e) == IF e # NoneVal /\ e > 0 THEN e ELSE MaxLife

\* What the provider may answer to one request.
ProvResp(s, ra, body) == [kind |-> "resp", status |-> s, ra |-> ra, body |-> body]
ProvTimeout == [kind |-> "timeout", status |-> 0, ra |-> "absent", body |-> "none"]
NoResp == [kind |-> "none", status |-> 0, ra |-> "absent", body |-> "none"]
OtherStatuses == {400, 501}
\* The statuses a provider sends a Retry-After header with.
RetryAfterStatuses == {429, 503}
ProviderOutcomes ==
    {ProvTimeout}
    \cup { ProvResp(s, "absent", "none") : s \in RetryableStatuses }
    \cup { ProvResp(s, ra, "none") : s \in RetryAfterStatuses, ra \in RetryAfterKinds }
    \cup { ProvResp(200, "absent", "json") }
    \cup { ProvResp(s, "absent", "none") : s \in OtherStatuses }

\* ------------------------------------------------------------------- state
VARIABLES
    now,      \* the clock, in ticks
    pc,       \* pc[c]: where connector call c stands
    call,     \* call[c]: provider, operation, config and cursor of call c
    auth,     \* auth[i]: the state of auth strategy instance i
    attempt,  \* attempt[c]: the attempt counter of _request
    resp,     \* resp[c]: the provider response _request holds
    net,      \* net[c]: counters of what call c did on the network and client
    result,   \* result[c]: what the call returned or raised
    reqCred,  \* reqCred[c]: the headers of the last provider request of call c
    trueExp,  \* trueExp[c]: when the strategy's access token really expires
    registry, \* ConnectorRegistry._items, in insertion order
    imported, \* whether connectors.examples is in sys.modules
    nextInst, \* how many connector instances have been constructed
    mpc,      \* where the manager / route request stands
    mreq,     \* the request: operation, connector_id and config
    mconn,    \* the connector instance the lookup returned
    mlog,     \* connector methods the request has called, in order
    mresult,  \* what the request returned or raised
    nextJob,  \* how many job ids (uuid4) execute has generated
    mret,     \* the job id execute returned to start_job
    page,     \* the list call whose page was normalised: arguments and metadata
    pquery,   \* the query parameters that call sent to the provider
    pnext,    \* the next cursor that call returned
    regLog,   \* every connector passed to register, in call order
    rret,     \* the last call on the registry and what it returned
    started,  \* whether the API's startup handler has run
    slept,    \* the last retry decision of _request: its inputs and its sleep
    mapped,   \* the last call of a mapping function: payload and outcome
    walk,     \* a caller following the cursors of a Jira list operation
    script    \* what the token endpoint and the provider answer to a pair of calls

callVars == <<now, pc, call, auth, attempt, resp, net, result, reqCred, trueExp>>
jobVars == <<nextJob, mret>>
regVars == <<registry, imported, nextInst, regLog, started>>
reqVars == <<mpc, mreq, mconn, mlog, mresult, jobVars>>
mgrVars == <<regVars, reqVars>>
pageVars == <<page, pquery, pnext>>
readVars == <<rret>>
delayVars == <<slept>>
mapVars == <<mapped>>
walkVars == <<walk>>
mirrorVars == <<script>>
vars == <<callVars, mgrVars, pageVars, readVars, delayVars, mapVars, walkVars, mirrorVars>>
notCallVars == <<mgrVars, pageVars, readVars, delayVars, mapVars, walkVars, mirrorVars>>
notMgrVars == <<callVars, pageVars, readVars, delayVars, mapVars, walkVars, mirrorVars>>
notPageVars == <<callVars, mgrVars, readVars, delayVars, mapVars, walkVars, mirrorVars>>
notDelayVars == <<callVars, mgrVars, pageVars, readVars, mapVars, walkVars, mirrorVars>>
notMapVars == <<callVars, mgrVars, pageVars, readVars, delayVars, walkVars, mirrorVars>>
notWalkVars == <<callVars, mgrVars, pageVars, readVars, delayVars, mapVars, mirrorVars>>

NoCall == [provider |-> "none", op |-> "none", config |-> NoConfig,
           cursor |-> "ok", body_ok |-> TRUE, url_str |-> TRUE]
\* requests: provider requests sent; checks: refresh_if_needed calls;
\* refreshes: refresh exchanges sent; stale: provider requests that carried an
\* expired bearer token; timedOut: some attempt timed out; tokenNon2xx: the
\* token endpoint answered a refresh exchange with a non-2xx status;
\* cancelled: the caller cancelled the call's task.
NoNet == [requests |-> 0, checks |-> 0, refreshes |-> 0, sleeps |-> 0,
          opened |-> 0, closed |-> 0, stale |-> 0,
          timedOut |-> FALSE, tokenNon2xx |-> FALSE, cancelled |-> FALSE]
NoResult == [kind |-> "pending", status |-> 0, src |-> "none"]
Res(kind, status, src) == [kind |-> kind, status |-> status, src |-> src]

NoHeaders == [accept |-> "none", authorization |-> NoneVal]

CallInit ==
    /\ now = 1
    /\ pc = [c \in CallIds |-> "idle"]
    /\ call = [c \in CallIds |-> NoCall]
    /\ auth = [c \in CallIds |-> NoAuth]
    /\ attempt = [c \in CallIds |-> 0]
    /\ resp = [c \in CallIds |-> NoResp]
    /\ net = [c \in CallIds |-> NoNet]
    /\ result = [c \in CallIds |-> NoResult]
    /\ reqCred = [c \in CallIds |-> NoHeaders]
    /\ trueExp = [c \in CallIds |-> 0]

\* A connector instance: its connector_id and which construction it came from.
Conn(id, n) == [connector_id |-> id, n |-> n]
NoConn == Conn("none", NoneVal)
NoRequest == [op |-> "none", connector_id |-> "none",
              config |-> [base_url |-> "absent", auth_method |-> "absent",
                          host |-> FALSE, port |-> FALSE]]

MgrInit ==
    /\ registry = <<>>
    /\ imported = FALSE
    /\ nextInst = 0
    /\ regLog = <<>>
    /\ started = FALSE
    /\ mpc = "idle"
    /\ mreq = NoRequest
    /\ mconn = NoConn
    /\ mlog = <<>>
    /\ mresult = NoResult
    /\ nextJob = 0
    /\ mret = NoneVal

\* A JSON null / Python None, and a string value (Jira cursors: the sequence
\* of their decimal digits; Confluence cursors and links: opaque strings).
Null == [null |-> TRUE]
StrVal(s) == [null |-> FALSE, str |-> s]
NoPage == [provider |-> "none"]

PageInit ==
    /\ page = NoPage
    /\ pquery = NoPage
    /\ pnext = Null

NoRead == [op |-> "none"]

ReadInit == rret = NoRead

NoSleep == [outcome |-> "none"]

DelayInit == slept = NoSleep

NoMap == [fn |-> "none"]

MapInit == mapped = NoMap

NoWalk == [op |-> "none"]
WalkInit == walk = NoWalk

NoScript == [set |-> FALSE]
MirrorInit == script = NoScript

Init ==
    /\ CallInit /\ MgrInit /\ PageInit /\ ReadInit
    /\ DelayInit /\ MapInit /\ WalkInit /\ MirrorInit

\* ---------------------------------------------------------- connector calls
\* The cursor argument: "ok" is absent, empty or a decimal string (int()
\* accepts it), "bad" is any other string.
Cursors == {"ok", "bad"}

\* What a caller may pass to containers/items/comments/create.  url_str: does
\* the validated base_url value offer str.rstrip (JiraAuth.__init__ calls it).
Invocation(p, o, config, cur, bodyok, urlstr) ==
    [provider |-> p, op |-> o, config |-> config, cursor |-> cur,
     body_ok |-> bodyok, url_str |-> urlstr]

\* Every config is tried with containers; the other operations, which differ
\* from it only before _request, are tried with a sample of the configs.
SampleConfigs ==
    { ConfigRec("valid", "api_key", FALSE, FALSE, TRUE, TRUE),
      ConfigRec("valid", "api_key", FALSE, FALSE, TRUE, FALSE),
      ConfigRec("valid", "oauth2", TRUE, FALSE, FALSE, FALSE),
      ConfigRec("valid", "absent", TRUE, FALSE, FALSE, FALSE) }

Invocations ==
    { Invocation(p, "containers", config, cur, TRUE, u) :
        p \in Providers, config \in Configs, cur \in Cursors, u \in BOOLEAN }
    \cup
    { Invocation(p, o, config, cur, TRUE, TRUE) :
        p \in Providers, o \in {"items", "comments"}, config \in SampleConfigs, cur \in Cursors }
    \cup
    { Invocation(p, "create", config, "ok", b, TRUE) :
        p \in Providers, config \in SampleConfigs, b \in BOOLEAN }

\* The caller awaits connector.<op>(config, ...); te is when the configured
\* access token really expires (already, or not within the run).
Invoke(c, inv, te) ==
    /\ pc[c] = "idle"
    /\ te \in IF inv.config.access_token THEN {now, Forever} ELSE {Forever}
    /\ pc' = [pc EXCEPT ![c] = "entered"]
    /\ call' = [call EXCEPT ![c] = inv]
    /\ trueExp' = [trueExp EXCEPT ![c] = te]
    /\ UNCHANGED <<now, auth, attempt, resp, net, result, reqCred, notCallVars>>

\* cfg = XConnectorConfig.model_validate(config); create also validates body.
ValidateArgs(c) ==
    /\ pc[c] = "entered"
    /\ IF AtlassianConfigValid(call[c].config) /\ (call[c].op = "create" => call[c].body_ok)
       THEN /\ pc' = [pc EXCEPT ![c] = "validated"]
            /\ result' = result
       ELSE /\ pc' = [pc EXCEPT ![c] = "done"]
            /\ result' = [result EXCEPT ![c] = Res("InvalidConfig", 0, "validate")]
    /\ UNCHANGED <<now, call, auth, attempt, resp, net, reqCred, trueExp, notCallVars>>

\* client = await self._client(cfg): the auth strategy, then the client
\* (which opens its httpx.AsyncClient).
BuildClient(c) ==
    /\ pc[c] = "validated"
    /\ IF call[c].url_str
       THEN /\ pc' = [pc EXCEPT ![c] = "try"]
            /\ auth' = [auth EXCEPT ![AuthOf(c)] = BuildAuth(call[c].config)]
            /\ net' = [net EXCEPT ![c].opened = @ + 1]
            /\ result' = result
       ELSE /\ pc' = [pc EXCEPT ![c] = "done"]
            /\ result' = [result EXCEPT ![c] = Res("AttributeError", 0, "client")]
            /\ UNCHANGED <<auth, net>>
    /\ UNCHANGED <<now, call, attempt, resp, reqCred, trueExp, notCallVars>>

\* Jira list operations: start = int(cursor) if cursor else 0.
CursorParses(provider, op, cursor) ==
    ~(provider = "jira" /\ op \in ListOps /\ cursor = "bad")

\* Variant: the cursor parsed before the try block is entered.
EnterTryCursorOutside(c) ==
    /\ pc[c] = "try"
    /\ IF CursorParses(call[c].provider, call[c].op, call[c].cursor)
       THEN /\ pc' = [pc EXCEPT ![c] = "loop"]
            /\ result' = result
       ELSE /\ pc' = [pc EXCEPT ![c] = "done"]
            /\ result' = [result EXCEPT ![c] = Res("BadCursor", 0, "cursor")]
    /\ UNCHANGED <<now, call, auth, attempt, resp, net, reqCred, trueExp, notCallVars>>

\* Inside try: the cursor, then the client's endpoint method up to _request.
EnterTry(c) ==
    /\ pc[c] = "try"
    /\ IF CursorParses(call[c].provider, call[c].op, call[c].cursor)
       THEN /\ pc' = [pc EXCEPT ![c] = "loop"]
            /\ result' = result
       ELSE /\ pc' = [pc EXCEPT ![c] = "finally"]
            /\ result' = [result EXCEPT ![c] = Res("BadCursor", 0, "cursor")]
    /\ UNCHANGED <<now, call, auth, attempt, resp, net, reqCred, trueExp, notCallVars>>

\* ------------------------------------------------------------- _request
ClientMaxRetries == DefaultMaxRetries

IsStale(a, te, t) == a.method # "api_key" /\ t >= te

\* Variant: the headers are built once, from the configured credentials.
RequestHeadersBuiltOnce(c, a) ==
    [accept |-> "application/json", authorization |-> HeaderCred(BuildAuth(call[c].config))]

\* headers = {"Accept": "application/json"}; headers.update(self.auth.auth_headers())
\* for call c, with strategy state a.
RequestHeaders(c, a) ==
    [accept |-> "application/json", authorization |-> HeaderCred(a)]

\* headers.update(self.auth.auth_headers()); await self._client.request(...)
\* with strategy state a, counters n and real token expiry te.
SendOrRaise(c, a, n, te) ==
    IF CanBuildHeaders(a)
    THEN /\ pc' = [pc EXCEPT ![c] = "inflight"]
         /\ net' = [net EXCEPT ![c] =
                      [n EXCEPT !.requests = @ + 1,
                                !.stale = IF IsStale(a, te, now) THEN @ + 1 ELSE @]]
         /\ reqCred' = [reqCred EXCEPT ![c] = RequestHeaders(c, a)]
         /\ result' = result
    ELSE /\ pc' = [pc EXCEPT ![c] = "finally"]
         /\ net' = [net EXCEPT ![c] = n]
         /\ result' = [result EXCEPT ![c] = Res("MissingCredentials", 0, "auth_headers")]
         /\ reqCred' = reqCred

\* Loop top: attempt += 1; await self.auth.refresh_if_needed(self._client);
\* without a refresh exchange the headers are built and the request is sent.
BeginAttempt(c) ==
    /\ pc[c] = "loop"
    /\ attempt' = [attempt EXCEPT ![c] = @ + 1]
    /\ LET n == [net[c] EXCEPT !.checks = @ + 1] IN
       IF NeedsRefresh(auth[AuthOf(c)], now)
       THEN /\ pc' = [pc EXCEPT ![c] = "refreshing"]
            /\ net' = [net EXCEPT ![c] = [n EXCEPT !.refreshes = @ + 1]]
            /\ UNCHANGED <<result, reqCred>>
       ELSE SendOrRaise(c, auth[AuthOf(c)], n, trueExp[c])
    /\ UNCHANGED <<now, call, auth, resp, trueExp, notCallVars>>

\* The token endpoint answers tr; refresh_if_needed finishes, and on success
\* _request goes on to build the headers and send the request.
RefreshComplete(c, tr) ==
    /\ pc[c] = "refreshing"
    /\ LET n == [net[c] EXCEPT !.tokenNon2xx =
                    @ \/ (tr.kind = "resp" /\ tr.status \notin 200..299)] IN
       IF tr.kind = "timeout"
       THEN /\ pc' = [pc EXCEPT ![c] = "finally"]
            /\ result' = [result EXCEPT ![c] = Res("Timeout", 0, "token")]
            /\ net' = [net EXCEPT ![c] = n]
            /\ UNCHANGED <<auth, reqCred, trueExp>>
       ELSE IF RefreshRaises(call[c].provider, tr.status)
       THEN /\ pc' = [pc EXCEPT ![c] = "finally"]
            /\ result' = [result EXCEPT ![c] = Res("HTTPStatusError", tr.status, "token")]
            /\ net' = [net EXCEPT ![c] = n]
            /\ UNCHANGED <<auth, reqCred, trueExp>>
       ELSE IF ~tr.json
       THEN /\ pc' = [pc EXCEPT ![c] = "finally"]
            /\ result' = [result EXCEPT ![c] = Res("DecodeError", tr.status, "token")]
            /\ net' = [net EXCEPT ![c] = n]
            /\ UNCHANGED <<auth, reqCred, trueExp>>
       ELSE LET tok == IF tr.has_token THEN net[c].refreshes ELSE NoneVal
                a == SetToken(auth[AuthOf(c)], tok, tr.expires_in, now)
                te == now + TrueLife(tr.expires_in)
            IN  /\ auth' = [auth EXCEPT ![AuthOf(c)] = a]
                /\ trueExp' = [trueExp EXCEPT ![c] = te]
                /\ SendOrRaise(c, a, n, te)
    /\ UNCHANGED <<now, call, attempt, resp, notCallVars>>

\* The provider's answer r (or the transport's timeout) reaches _request:
\* the except branch, the retryable-status branch, or return resp.  resp is
\* the response _request holds: the one it sleeps on, raises for or returns.
ProviderResponds(c, r) ==
    /\ pc[c] = "inflight"
    /\ resp' = [resp EXCEPT ![c] = r]
    /\ net' = [net EXCEPT ![c].timedOut = @ \/ r.kind = "timeout"]
    /\ IF r.kind = "timeout"
       THEN IF BudgetSpent(attempt[c], ClientMaxRetries)
            THEN /\ pc' = [pc EXCEPT ![c] = "finally"]
                 /\ result' = [result EXCEPT ![c] = Res("Timeout", 0, "retries")]
            ELSE /\ pc' = [pc EXCEPT ![c] = "sleeping"]
                 /\ result' = result
       ELSE IF IsRetryable(r.status)
       THEN IF BudgetSpent(attempt[c], ClientMaxRetries)
            THEN /\ pc' = [pc EXCEPT ![c] = "finally"]
                 /\ result' = [result EXCEPT ![c] = Res("HTTPStatusError", r.status, "retries")]
            ELSE IF RetryAfterParses(r.ra)
            THEN /\ pc' = [pc EXCEPT ![c] = "sleeping"]
                 /\ result' = result
            ELSE /\ pc' = [pc EXCEPT ![c] = "finally"]
                 /\ result' = [result EXCEPT ![c] = Res("ValueError", r.status, "retry_after")]
       ELSE /\ pc' = [pc EXCEPT ![c] = "returned"]
            /\ result' = result
    /\ UNCHANGED <<now, call, auth, attempt, reqCred, trueExp, notCallVars>>

\* await asyncio.sleep(...) returns; continue.
Wake(c) ==
    /\ pc[c] = "sleeping"
    /\ pc' = [pc EXCEPT ![c] = "loop"]
    /\ net' = [net EXCEPT ![c].sleeps = @ + 1]
    /\ resp' = [resp EXCEPT ![c] = NoResp]
    /\ UNCHANGED <<now, call, auth, attempt, result, reqCred, trueExp, notCallVars>>

\* The endpoint method after _request returned: resp.raise_for_status(),
\* resp.json(), the mapping and the result object.
ResultOf(r) ==
    IF RaisesForStatus(r.status)
    THEN Res("HTTPStatusError", r.status, "provider")
    ELSE IF r.body # "json"
    THEN Res("DecodeError", r.status, "provider")
    ELSE Res("ok", r.status, "provider")

PostProcess(c) ==
    /\ pc[c] = "returned"
    /\ pc' = [pc EXCEPT ![c] = "finally"]
    /\ result' = [result EXCEPT ![c] = ResultOf(resp[c])]
    /\ UNCHANGED <<now, call, auth, attempt, resp, net, reqCred, trueExp, notCallVars>>

\* The caller cancels the task while it is suspended in an await.
Suspended(c) == pc[c] \in {"refreshing", "inflight", "sleeping"}

\* Variant: the cancellation is handled like a timeout and the loop goes on.
CancelRetried(c) ==
    /\ Suspended(c)
    /\ pc' = [pc EXCEPT ![c] = "sleeping"]
    /\ net' = [net EXCEPT ![c].cancelled = TRUE]
    /\ UNCHANGED <<now, call, auth, attempt, resp, result, reqCred, trueExp, notCallVars>>

\* CancelledError is raised at the await; no except clause of _request or of
\* the connector operation catches it, so it unwinds to the finally block.
Cancel(c) ==
    /\ Suspended(c)
    /\ pc' = [pc EXCEPT ![c] = "finally"]
    /\ result' = [result EXCEPT ![c] = Res("Cancelled", 0, "caller")]
    /\ net' = [net EXCEPT ![c].cancelled = TRUE]
    /\ UNCHANGED <<now, call, auth, attempt, resp, reqCred, trueExp, notCallVars>>

\* finally: await client.close()
Close(c) ==
    /\ pc[c] = "finally"
    /\ pc' = [pc EXCEPT ![c] = "done"]
    /\ net' = [net EXCEPT ![c].closed = @ + 1]
    /\ UNCHANGED <<now, call, auth, attempt, resp, result, reqCred, trueExp, notCallVars>>

\* Time passes while some call sleeps between attempts (a network exchange
\* is taken to end within the tick it started in).
Tick ==
    /\ now < MaxTime
    /\ \E c \in CallIds : pc[c] = "sleeping"
    /\ now' = now + 1
    /\ UNCHANGED <<pc, call, auth, attempt, resp, net, result, reqCred, trueExp, notCallVars>>

\* Spec: one connector call, followed from its invocation to its end.
FirstCall == CHOOSE c \in CallIds : \A d \in CallIds : c <= d

Next ==
    \/ \E inv \in Invocations, te \in {now, Forever} : Invoke(FirstCall, inv, te)
    \/ \E c \in CallIds : ValidateArgs(c)
    \/ \E c \in CallIds : BuildClient(c)
    \/ \E c \in CallIds : EnterTry(c)
    \/ \E c \in CallIds : BeginAttempt(c)
    \/ \E c \in CallIds, tr \in TokenOutcomes : RefreshComplete(c, tr)
    \/ \E c \in CallIds, r \in ProviderOutcomes : ProviderResponds(c, r)
    \/ \E c \in CallIds : Wake(c)
    \/ \E c \in CallIds : PostProcess(c)
    \/ \E c \in CallIds : Cancel(c)
    \/ \E c \in CallIds : Close(c)
    \/ Tick

Spec == Init /\ [][Next]_vars

\* SpecTwo: connector calls that run concurrently, each an asyncio task that
\* the event loop switches between at the awaits.
SharedOAuthConfig == ConfigRec("valid", "oauth2", TRUE, TRUE, FALSE, FALSE)

TwoInvocations ==
    { Invocation("jira", "containers", SharedOAuthConfig, "ok", TRUE, TRUE),
      Invocation("confluence", "create", SharedOAuthConfig, "ok", TRUE, TRUE) }

TwoTokenOutcomes ==
    { TokenResp(200, TRUE, MaxLife, TRUE), TokenResp(400, FALSE, NoneVal, FALSE) }

TwoProviderOutcomes == { ProvResp(200, "absent", "json"), ProvResp(503, "absent", "none") }

NextTwo ==
    \/ \E c \in CallIds : pc[c] = "idle" /\ \E inv \in TwoInvocations : Invoke(c, inv, Forever)
    \/ \E c \in CallIds : ValidateArgs(c)
    \/ \E c \in CallIds : BuildClient(c)
    \/ \E c \in CallIds : EnterTry(c)
    \/ \E c \in CallIds : BeginAttempt(c)
    \/ \E c \in CallIds, tr \in TwoTokenOutcomes : RefreshComplete(c, tr)
    \/ \E c \in CallIds, r \in TwoProviderOutcomes : ProviderResponds(c, r)
    \/ \E c \in CallIds : Wake(c)
    \/ \E c \in CallIds : PostProcess(c)
    \/ \E c \in CallIds : Cancel(c)
    \/ \E c \in CallIds : Close(c)
    \/ Tick

SpecTwo == Init /\ [][NextTwo]_vars

\* SpecMirror: the same operation is called on the Jira connector (call 1)
\* and on the Confluence connector (call 2) with the same configuration, and
\* the token endpoint and the provider give both calls the same answers: the
\* k-th refresh exchange of either call is answered by the k-th token outcome
\* of the script, the k-th provider request by its k-th provider outcome (the
\* last outcome of a script is repeated).
JiraCall == 1
ConfluenceCall == 2

ScriptAt(outcomes, k) == outcomes[Max(1, Min(k, Len(outcomes)))]

MirrorConfigs ==
    OAuthConfigs \cup OtherMethodConfigs
    \cup { ConfigRec("valid", "api_key", FALSE, FALSE, TRUE, tk) : tk \in BOOLEAN }

MirrorTokenScripts ==
    { <<first, rest>> :
        first \in {TokenTimeout, TokenResp(200, FALSE, NoneVal, TRUE)}
                  \cup { TokenResp(200, TRUE, e, TRUE) : e \in {NoneVal, 1, MaxLife} }
                  \cup { TokenResp(302, TRUE, MaxLife, TRUE) }
                  \cup { TokenResp(s, FALSE, NoneVal, FALSE) : s \in TokenStatuses },
        rest \in { TokenResp(200, TRUE, MaxLife, TRUE), TokenResp(302, TRUE, NoneVal, TRUE),
                   TokenResp(400, FALSE, NoneVal, FALSE) } }

MirrorProviderScripts ==
    { <<first, rest>> :
        first \in { ProvTimeout, ProvResp(200, "absent", "json"), ProvResp(200, "absent", "none"),
                    ProvResp(400, "absent", "none"), ProvResp(503, "absent", "none"),
                    ProvResp(429, "seconds", "none"), ProvResp(429, "date", "none") },
        rest \in { ProvTimeout, ProvResp(200, "absent", "json"), ProvResp(503, "absent", "none") } }

\* The caller awaits the operation on both connectors.
MirrorInvoke(op, config, tokens, provs) ==
    /\ script = NoScript
    /\ pc[JiraCall] = "idle" /\ pc[ConfluenceCall] = "idle"
    /\ script' = [set |-> TRUE, tokens |-> tokens, provs |-> provs]
    /\ call' = [call EXCEPT
                  ![JiraCall] = Invocation("jira", op, config, "ok", TRUE, TRUE),
                  ![ConfluenceCall] = Invocation("confluence", op, config, "ok", TRUE, TRUE)]
    /\ pc' = [pc EXCEPT ![JiraCall] = "entered", ![ConfluenceCall] = "entered"]
    /\ trueExp' = [trueExp EXCEPT ![JiraCall] = Forever, ![ConfluenceCall] = Forever]
    /\ UNCHANGED <<now, auth, attempt, resp, net, result, reqCred,
                   mgrVars, pageVars, readVars, delayVars, mapVars, walkVars>>

\* The Jira call is followed to its end, then the Confluence call.
Turn(c) ==
    /\ script.set
    /\ c = JiraCall \/ (c = ConfluenceCall /\ pc[JiraCall] = "done")

NextMirror ==
    \/ /\ script = NoScript
       /\ \E op \in Ops, config \in MirrorConfigs, tokens \in MirrorTokenScripts,
             provs \in MirrorProviderScripts : MirrorInvoke(op, config, tokens, provs)
    \/ \E c \in {JiraCall, ConfluenceCall} : Turn(c) /\ ValidateArgs(c)
    \/ \E c \in {JiraCall, ConfluenceCall} : Turn(c) /\ BuildClient(c)
    \/ \E c \in {JiraCall, ConfluenceCall} : Turn(c) /\ EnterTry(c)
    \/ \E c \in {JiraCall, ConfluenceCall} : Turn(c) /\ BeginAttempt(c)
    \/ \E c \in {JiraCall, ConfluenceCall} :
          /\ Turn(c) /\ pc[c] = "refreshing"
          /\ RefreshComplete(c, ScriptAt(script.tokens, net[c].refreshes))
    \/ \E c \in {JiraCall, ConfluenceCall} :
          /\ Turn(c) /\ pc[c] = "inflight"
          /\ ProviderResponds(c, ScriptAt(script.provs, net[c].requests))
    \/ \E c \in {JiraCall, ConfluenceCall} : Turn(c) /\ Wake(c)
    \/ \E c \in {JiraCall, ConfluenceCall} : Turn(c) /\ PostProcess(c)
    \/ \E c \in {JiraCall, ConfluenceCall} : Turn(c) /\ Close(c)

SpecMirror == Init /\ [][NextMirror]_vars

\* ------------------------------------------------------------ retry delays
\* Delays are Python floats (IEEE-754 doubles).  A value is written
\* e/8 s + off * 2^-55 s with |off| far below 2^52, so two values compare by e
\* first and by off second.  2^-55 s is the grid of random.random() * 0.25:
\* random() returns a multiple of 2^-53 in [0, 1).
Val(e, off) == [e |-> e, off |-> off]
Exact(e) == Val(e, 0)
Less(a, b) == a.e < b.e \/ (a.e = b.e /\ a.off < b.off)
Leq(a, b) == ~Less(b, a)

\* Python max(a, b): b when b > a, else a.
PyMax(a, b) == IF Less(a, b) THEN b ELSE a

\* backoff_factor = 0.5 s, in eighths of a second.
BackoffFactor == 4

\* How far the ends of the range of random() are sampled, in steps of 2^-53.
MaxOffset == 40

\* random.random(): k * 2^-53 ("low"), one half ("half"), or 1 - m * 2^-53
\* ("high", m >= 1).
Randoms ==
    { [end |-> "low", off |-> k] : k \in 0..MaxOffset }
    \cup { [end |-> "half", off |-> 0] }
    \cup { [end |-> "high", off |-> m] : m \in 1..MaxOffset }

\* Round-to-nearest, ties-to-even, of a distance x (in units of 2^-55 s) from
\* a double whose significand is even, to the spacing sp of the doubles there.
RoundEven(x, sp) ==
    LET q == x \div sp
        r == x % sp
    IN  IF 2 * r < sp THEN q * sp
        ELSE IF 2 * r > sp THEN (q + 1) * sp
        ELSE IF q % 2 = 0 THEN q * sp ELSE (q + 1) * sp

\* The spacing of the doubles in [b/8 s, 2b/8 s), b a power of two, in units
\* of 2^-55 s: 2^-52 * b/8 s.
Ulp(b) == b

\* Variant: a backoff that grows linearly with the attempt.
SleepDelayLinear(att, rnd) ==
    LET base == BackoffFactor * att
    IN  CASE rnd.end = "low" -> Val(base, rnd.off)
          [] rnd.end = "half" -> Exact(base + 1)
          [] rnd.end = "high" -> Val(base + 2, 0 - rnd.off)

\* _sleep_delay(attempt): base = backoff_factor * 2 ** (attempt - 1);
\* return base + random.random() * 0.25.  The product is exact; the sum is
\* rounded to a double.
SleepDelay(att, rnd) ==
    LET base == BackoffFactor * 2 ^ (att - 1)
    IN  CASE rnd.end = "low" -> Val(base, RoundEven(rnd.off, Ulp(base)))
          [] rnd.end = "half" -> Exact(base + 1)
          [] rnd.end = "high" -> Val(base + 2, 0 - RoundEven(rnd.off, Ulp(base)))

\* The Retry-After header of a response: absent, empty, a number of seconds
\* (here in eighths of a second), or an HTTP date.
RetryAfterSeconds == {0, 4, 5, 6, 8, 9, 960}
Headers ==
    { [kind |-> "absent"], [kind |-> "empty"], [kind |-> "date"] }
    \cup { [kind |-> "seconds", value |-> Exact(e)] : e \in RetryAfterSeconds }

\* float(resp.headers.get("Retry-After", "0") or 0.0) for a header float() parses.
RetryAfter(h) == IF h.kind = "seconds" THEN h.value ELSE Exact(0)

\* Variant: the header replaces the computed backoff.
SleepForRetryAfterOnly(retry_after, delay) == retry_after

\* max(retry_after, self._sleep_delay(attempt))
SleepFor(retry_after, delay) == PyMax(retry_after, delay)

\* The attempts a sleep can follow: attempt > max_retries raises instead.
SleepAttempts == 1..ClientMaxRetries

\* except httpx.TimeoutException: await asyncio.sleep(self._sleep_delay(attempt))
SleepAfterTimeout(att, rnd) ==
    /\ slept' = [outcome |-> "slept", attempt |-> att, status |-> 0,
                 header |-> [kind |-> "absent"], backoff |-> SleepDelay(att, rnd),
                 delay |-> SleepDelay(att, rnd)]
    /\ UNCHANGED notDelayVars

\* A retryable status with retry budget left: the header is parsed, then
\* await asyncio.sleep(max(retry_after, self._sleep_delay(attempt))).
SleepAfterStatus(att, status, h, rnd) ==
    /\ slept' = IF RetryAfterParses(h.kind)
                THEN [outcome |-> "slept", attempt |-> att, status |-> status,
                      header |-> h, backoff |-> SleepDelay(att, rnd),
                      delay |-> SleepFor(RetryAfter(h), SleepDelay(att, rnd))]
                ELSE [outcome |-> "ValueError", attempt |-> att, status |-> status,
                      header |-> h]
    /\ UNCHANGED notDelayVars

\* One retry decision is followed from the response to the sleep.
NextDelay ==
    \/ slept = NoSleep /\ \E att \in SleepAttempts, rnd \in Randoms : SleepAfterTimeout(att, rnd)
    \/ slept = NoSleep /\ \E att \in SleepAttempts, status \in RetryableStatuses,
                             h \in Headers, rnd \in Randoms :
                            SleepAfterStatus(att, status, h, rnd)

SpecDelay == Init /\ [][NextDelay]_vars

\* ---------------------------------------------------------------- mapping
\* JSON / Python values: Null (None), StrVal(s), NumVal(n) and Dict(items),
\* where items gives every key of interest its value or Absent (the key is not
\* in the dict).  Raised stands for the AttributeError of calling .get on a
\* value that is not a dict.
Absent == [absent |-> TRUE]
Raised == [raised |-> TRUE]
NumVal(n) == [null |-> FALSE, num |-> n]
ListVal(xs) == [null |-> FALSE, list |-> xs]
Dict(items) == [dict |-> TRUE, items |-> items]
EmptyDict == Dict([none |-> Absent])

IsDict(v) == "dict" \in DOMAIN v

\* k in d
Has(d, k) == k \in DOMAIN d.items /\ d.items[k] # Absent

\* d.get(k) and d.get(k, default) on a dict d
DictGet(d, k) == IF Has(d, k) THEN d.items[k] ELSE Null
DictGetDefault(d, k, default) == IF Has(d, k) THEN d.items[k] ELSE default

\* x.get(k) and x.get(k, default) where x is whatever an expression yielded
AttrGet(x, k) ==
    IF x = Raised THEN Raised ELSE IF IsDict(x) THEN DictGet(x, k) ELSE Raised
AttrGetDefault(x, k, default) ==
    IF x = Raised THEN Raised ELSE IF IsDict(x) THEN DictGetDefault(x, k, default) ELSE Raised

\* bool(v): None, "", 0 and {} are falsy
Truthy(v) ==
    /\ v # Null
    /\ v # StrVal("")
    /\ v # NumVal(0)
    /\ v # ListVal(<<>>)
    /\ IsDict(v) => \E k \in DOMAIN v.items : v.items[k] # Absent

\* a or b
PyOr(a, b) == IF a = Raised THEN Raised ELSE IF Truthy(a) THEN a ELSE b

\* A dict literal whose value expressions are evaluated first: any of them
\* raising makes the function raise.
Returns(out, parts) == IF \E i \in 1..Len(parts) : parts[i] = Raised THEN Raised ELSE out

\* jira/mapping.py map_project_to_container
JiraMapProjectToContainer(project) ==
    LET lead == AttrGet(PyOr(DictGet(project, "lead"), EmptyDict), "displayName")
    IN  Returns([id |-> PyOr(DictGet(project, "key"), DictGet(project, "id")),
                 label |-> DictGet(project, "name"),
                 type |-> StrVal("project"),
                 meta |-> [projectTypeKey |-> DictGet(project, "projectTypeKey"),
                           lead |-> lead]],
                <<lead>>)

\* Variant: the issue key is preferred over the issue id.
JiraMapIssueToItemKeyFirst(issue) ==
    LET fields == DictGetDefault(issue, "fields", EmptyDict)
        proj == PyOr(AttrGet(fields, "project"), EmptyDict)
        name == AttrGet(fields, "summary")
        containerId == PyOr(AttrGet(proj, "key"), AttrGet(proj, "id"))
        status == AttrGet(PyOr(AttrGet(fields, "status"), EmptyDict), "name")
        assignee == AttrGet(PyOr(AttrGet(fields, "assignee"), EmptyDict), "displayName")
        reporter == AttrGet(PyOr(AttrGet(fields, "reporter"), EmptyDict), "displayName")
        created == AttrGet(fields, "created")
        updated == AttrGet(fields, "updated")
    IN  Returns([id |-> PyOr(DictGet(issue, "key"), DictGet(issue, "id")),
                 name |-> name,
                 containerId |-> containerId,
                 meta |-> [status |-> status, assignee |-> assignee, reporter |-> reporter,
                           created |-> created, updated |-> updated,
                           key |-> DictGet(issue, "key")]],
                <<name, containerId, status, assignee, reporter, created, updated>>)

\* jira/mapping.py map_issue_to_item
JiraMapIssueToItem(issue) ==
    LET fields == DictGetDefault(issue, "fields", EmptyDict)
        proj == PyOr(AttrGet(fields, "project"), EmptyDict)
        name == AttrGet(fields, "summary")
        containerId == PyOr(AttrGet(proj, "key"), AttrGet(proj, "id"))
        status == AttrGet(PyOr(AttrGet(fields, "status"), EmptyDict), "name")
        assignee == AttrGet(PyOr(AttrGet(fields, "assignee"), EmptyDict), "displayName")
        reporter == AttrGet(PyOr(AttrGet(fields, "reporter"), EmptyDict), "displayName")
        created == AttrGet(fields, "created")
        updated == AttrGet(fields, "updated")
    IN  Returns([id |-> PyOr(DictGet(issue, "id"), DictGet(issue, "key")),
                 name |-> name,
                 containerId |-> containerId,
                 meta |-> [status |-> status, assignee |-> assignee, reporter |-> reporter,
                           created |-> created, updated |-> updated,
                           key |-> DictGet(issue, "key")]],
                <<name, containerId, status, assignee, reporter, created, updated>>)

\* jira/mapping.py map_comment_to_unified
JiraMapCommentToUnified(comment) ==
    LET author == PyOr(DictGet(comment, "author"), EmptyDict)
        body == DictGet(comment, "body")
        text == IF IsDict(body) /\ Has(body, "content")
                THEN PyOr(DictGet(body, "content"), StrVal(""))
                ELSE body
        name == AttrGet(author, "displayName")
    IN  Returns([id |-> DictGet(comment, "id"),
                 author |-> name,
                 text |-> text,
                 created |-> DictGet(comment, "created"),
                 updated |-> DictGet(comment, "updated")],
                <<name>>)

\* confluence/mapping.py map_space_to_container
ConfluenceMapSpaceToContainer(space) ==
    [id |-> PyOr(DictGet(space, "key"), DictGet(space, "id")),
     label |-> DictGet(space, "name"),
     type |-> StrVal("space"),
     meta |-> [type |-> DictGet(space, "type"), status |-> DictGet(space, "status")]]

\* confluence/mapping.py map_page_to_item
ConfluenceMapPageToItem(pg) ==
    LET space == PyOr(DictGet(pg, "space"), EmptyDict)
        containerId == PyOr(AttrGet(space, "key"), AttrGet(space, "id"))
        parentId == AttrGet(PyOr(DictGet(pg, "parent"), EmptyDict), "id")
        version == AttrGet(PyOr(DictGet(pg, "version"), EmptyDict), "number")
    IN  Returns([id |-> DictGet(pg, "id"),
                 name |-> DictGet(pg, "title"),
                 containerId |-> containerId,
                 meta |-> [status |-> DictGet(pg, "status"),
                           parentId |-> parentId,
                           createdAt |-> DictGet(pg, "createdAt"),
                           version |-> version]],
                <<containerId, parentId, version>>)

\* Variant: the text is read from body.storage.value only.
ConfluenceMapCommentStorageOnly(comment) ==
    LET author == PyOr(DictGet(comment, "createdBy"), EmptyDict)
        name == PyOr(AttrGet(author, "displayName"), AttrGet(author, "name"))
        body == DictGet(comment, "body")
        text == IF IsDict(body)
                THEN AttrGet(AttrGetDefault(PyOr(body, EmptyDict), "storage", EmptyDict), "value")
                ELSE Null
    IN  Returns([id |-> DictGet(comment, "id"),
                 author |-> name,
                 text |-> text,
                 created |-> DictGet(comment, "createdAt"),
                 updated |-> DictGet(comment, "updatedAt")],
                <<name, text>>)

\* confluence/mapping.py map_comment_to_unified
ConfluenceMapCommentToUnified(comment) ==
    LET author == PyOr(DictGet(comment, "createdBy"), EmptyDict)
        name == PyOr(AttrGet(author, "displayName"), AttrGet(author, "name"))
        body == DictGet(comment, "body")
        text == IF IsDict(body)
                THEN AttrGet(AttrGetDefault(PyOr(body, EmptyDict), "storage", EmptyDict), "value")
                ELSE body
    IN  Returns([id |-> DictGet(comment, "id"),
                 author |-> name,
                 text |-> text,
                 created |-> DictGet(comment, "createdAt"),
                 updated |-> DictGet(comment, "updatedAt")],
                <<name, text>>)

\* The payloads the mapping functions are tried with: every optional field
\* and nested object present, null or absent.  Identifiers and keys, when
\* present, are non-empty strings.
Opt(values) == {Absent, Null} \cup values

Person(name) == Dict([displayName |-> StrVal(name), name |-> Absent])

JiraProjects ==
    { Dict([key |-> k, id |-> i, name |-> StrVal("My Project"),
            projectTypeKey |-> ptk, lead |-> lead]) :
        k \in Opt({StrVal("PRJ")}), i \in Opt({StrVal("10001")}),
        ptk \in {Absent, StrVal("software")}, lead \in Opt({Person("Ada"), EmptyDict}) }

JiraFields ==
    { Dict([summary |-> s, project |-> proj, status |-> st, assignee |-> a,
            reporter |-> r, created |-> when, updated |-> upd]) :
        s \in {Absent, StrVal("Fix bug")},
        proj \in Opt({ Dict([key |-> k, id |-> i]) :
                         k \in Opt({StrVal("PRJ")}), i \in {Absent, StrVal("10001")} }),
        st \in Opt({Dict([name |-> StrVal("To Do")])}),
        a \in {Null, Person("Ada")},
        r \in {Absent, Person("Grace")},
        when \in {Absent, StrVal("2024-01-01T00:00:00.000+0000")},
        upd \in {Absent, StrVal("2024-01-02T00:00:00.000+0000")} }

JiraIssues ==
    { Dict([id |-> i, key |-> k, fields |-> f]) :
        i \in Opt({StrVal("I-1")}), k \in Opt({StrVal("PRJ-1")}), f \in Opt(JiraFields) }

JiraComments ==
    { Dict([id |-> StrVal("c1"), author |-> a, body |-> b,
            created |-> StrVal("t1"), updated |-> StrVal("t2")]) :
        a \in Opt({Person("Linus")}),
        b \in Opt({ StrVal("simple text"), StrVal(""),
                    Dict([content |-> StrVal("doc"), type |-> StrVal("doc")]),
                    Dict([content |-> ListVal(<<Dict([type |-> StrVal("paragraph")])>>),
                          type |-> StrVal("doc")]),
                    Dict([content |-> ListVal(<<>>), type |-> StrVal("doc")]),
                    Dict([content |-> Null, type |-> StrVal("doc")]),
                    Dict([content |-> Absent, type |-> StrVal("doc")]) }) }

ConfluenceSpaces ==
    { Dict([key |-> k, id |-> i, name |-> StrVal("Docs"), type |-> ty, status |-> st]) :
        k \in Opt({StrVal("DOC")}), i \in Opt({StrVal("10")}),
        ty \in {Absent, StrVal("global")}, st \in Opt({StrVal("current")}) }

ConfluencePages ==
    { Dict([id |-> StrVal("123"), title |-> ti, space |-> sp, status |-> StrVal("current"),
            parent |-> pa, createdAt |-> StrVal("2024-02-01T00:00:00Z"), version |-> ve]) :
        ti \in {Absent, StrVal("Welcome")},
        sp \in Opt({ Dict([key |-> k, id |-> i]) :
                       k \in Opt({StrVal("DOC")}), i \in {Absent, StrVal("10")} }),
        pa \in Opt({Dict([id |-> StrVal("1")])}),
        ve \in Opt({Dict([number |-> NumVal(3)]), Dict([number |-> Absent])}) }

ConfluenceComments ==
    { Dict([id |-> i, createdBy |-> by, body |-> b, createdAt |-> when, updatedAt |-> upd]) :
        i \in {Absent, StrVal("c2")},
        by \in Opt({ Dict([displayName |-> dn, name |-> n]) :
                       dn \in Opt({StrVal("Alice")}), n \in {Absent, StrVal("bob")} }),
        b \in Opt({ StrVal("<p>Hi</p>"), StrVal("") }
                  \cup { Dict([storage |-> s]) :
                           s \in Opt({ Dict([value |-> v]) :
                                          v \in Opt({StrVal("<p>Hello</p>")}) }) }),
        when \in {Absent, StrVal("t1")}, upd \in {Null, StrVal("t2")} }

MapCall(fn, payload, out) ==
    /\ mapped' = [fn |-> fn, payload |-> payload, out |-> out]
    /\ UNCHANGED notMapVars

\* One call of one mapping function is followed.
NextMap ==
    \/ mapped = NoMap /\ \E p \in JiraProjects :
          MapCall("jira.map_project_to_container", p, JiraMapProjectToContainer(p))
    \/ mapped = NoMap /\ \E i \in JiraIssues :
          MapCall("jira.map_issue_to_item", i, JiraMapIssueToItem(i))
    \/ mapped = NoMap /\ \E c \in JiraComments :
          MapCall("jira.map_comment_to_unified", c, JiraMapCommentToUnified(c))
    \/ mapped = NoMap /\ \E s \in ConfluenceSpaces :
          MapCall("confluence.map_space_to_container", s, ConfluenceMapSpaceToContainer(s))
    \/ mapped = NoMap /\ \E pg \in ConfluencePages :
          MapCall("confluence.map_page_to_item", pg, ConfluenceMapPageToItem(pg))
    \/ mapped = NoMap /\ \E c \in ConfluenceComments :
          MapCall("confluence.map_comment_to_unified", c, ConfluenceMapCommentToUnified(c))

SpecMap == Init /\ [][NextMap]_vars

\* ------------------------------------------------------ registry and manager
ConnectorIds == {"postgres", "salesforce", "jira", "confluence"}
RequestIds == ConnectorIds \cup {"unknown"}
MgrOps == {"run_probe", "start_job", "validate_connector"}

\* The config dict a request carries, by which keys are present.
\* base_url: "absent" | "malformed" (not a URL) | "valid".
MgrConfigs ==
    [base_url : {"absent", "malformed", "valid"}, auth_method : {"absent", "oauth2"},
     host : BOOLEAN, port : BOOLEAN]

HasId(reg, connector_id) ==
    \E i \in 1..Len(reg) : reg[i].connector_id = connector_id

\* Variant: a second registration under an identifier is ignored.
RegisterKeepsFirst(reg, connector) ==
    IF HasId(reg, connector.connector_id) THEN reg ELSE Append(reg, connector)

\* Variant: a second registration moves the identifier to the end.
RegisterMovesToEnd(reg, connector) ==
    Append(SelectSeq(reg, LAMBDA c : c.connector_id # connector.connector_id), connector)

\* Variant: the registry is a list that every registration is appended to.
RegisterAppends(reg, connector) == Append(reg, connector)

\* ConnectorRegistry.register: self._items[connector.connector_id] = connector.
\* A dict keeps the position of a key that is assigned again.
Register(reg, connector) ==
    IF HasId(reg, connector.connector_id)
    THEN [i \in 1..Len(reg) |->
            IF reg[i].connector_id = connector.connector_id THEN connector ELSE reg[i]]
    ELSE Append(reg, connector)

\* A lookup that falls back to the first registered connector.
GetOrFirst(reg, connector_id) ==
    IF HasId(reg, connector_id)
    THEN reg[CHOOSE i \in 1..Len(reg) : reg[i].connector_id = connector_id]
    ELSE IF reg # <<>> THEN reg[1] ELSE NoConn

\* ConnectorRegistry.all: self._items.values(), a view in the dict's order.
All(reg) == reg

\* Variant: a lookup that constructs a connector for an unknown identifier.
GetOrConstruct(reg, connector_id) ==
    IF HasId(reg, connector_id)
    THEN reg[CHOOSE i \in 1..Len(reg) : reg[i].connector_id = connector_id]
    ELSE Conn(connector_id, 0)

\* ConnectorRegistry.get: self._items.get(connector_id), None when absent.
Get(reg, connector_id) ==
    IF HasId(reg, connector_id)
    THEN reg[CHOOSE i \in 1..Len(reg) : reg[i].connector_id = connector_id]
    ELSE NoConn

\* A Postgres check that looks at the host key only.
PostgresConfigValidHostOnly(config) == config.host

\* PostgresConnector.validate: both keys "host" and "port" are in the dict.
PostgresConfigValid(config) == config.host /\ config.port

\* validate of the connector class registered under each identifier.
ValidateRaises(connector_id, config) ==
    CASE connector_id \in Providers -> ~AtlassianConfigValid(config)
      [] connector_id = "postgres" -> ~PostgresConfigValid(config)
      [] OTHER -> FALSE

\* probe: Jira and Confluence parse the config again, the examples do not.
ProbeRaises(connector_id, config) ==
    connector_id \in Providers /\ ~AtlassianConfigValid(config)

\* execute awaits asyncio.sleep(0.01) except in SalesforceConnector.
ExecuteSleeps(connector_id) == connector_id # "salesforce"

\* The request is not running: registration code can only run when no
\* request is between two awaits that do not suspend.
MgrYielded == mpc \in {"idle", "executing", "done"}

\* import of connectors.examples: module-level registration, once per process.
ImportExamples ==
    /\ MgrYielded
    /\ ~imported
    /\ nextInst + 2 <= MaxInst
    /\ registry' = Register(Register(registry, Conn("postgres", nextInst)),
                            Conn("salesforce", nextInst + 1))
    /\ regLog' = regLog \o <<Conn("postgres", nextInst), Conn("salesforce", nextInst + 1)>>
    /\ imported' = TRUE
    /\ nextInst' = nextInst + 2
    /\ UNCHANGED <<started, reqVars, notMgrVars>>

\* register_connectors(): imports the examples module when it is not yet
\* imported, then registers a new JiraConnector and a new ConfluenceConnector.
RegisterConnectors ==
    /\ MgrYielded
    /\ nextInst + (IF imported THEN 2 ELSE 4) <= MaxInst
    /\ LET k == IF imported THEN nextInst ELSE nextInst + 2
           reg == IF imported THEN registry
                  ELSE Register(Register(registry, Conn("postgres", nextInst)),
                                Conn("salesforce", nextInst + 1))
           log == IF imported THEN regLog
                  ELSE regLog \o <<Conn("postgres", nextInst), Conn("salesforce", nextInst + 1)>>
       IN /\ registry' = Register(Register(reg, Conn("jira", k)), Conn("confluence", k + 1))
          /\ regLog' = log \o <<Conn("jira", k), Conn("confluence", k + 1)>>
          /\ nextInst' = k + 2
    /\ imported' = TRUE
    /\ UNCHANGED <<started, reqVars, notMgrVars>>

\* A caller starts run_probe, start_job or the validate_connector route.
MgrInvoke(op, connector_id, config) ==
    /\ mpc = "idle"
    /\ op = "start_job" => nextJob < MaxJobs
    /\ mpc' = "require"
    /\ mreq' = [op |-> op, connector_id |-> connector_id, config |-> config]
    /\ UNCHANGED <<regVars, mconn, mlog, mresult, jobVars, notMgrVars>>

\* _require (manager) / registry.get and the 404 (route).
Require ==
    /\ mpc = "require"
    /\ LET c == Get(registry, mreq.connector_id)
       IN IF c = NoConn
          THEN /\ mpc' = "done"
               /\ mresult' = IF mreq.op = "validate_connector"
                             THEN Res("NotFound", 404, "route")
                             ELSE Res("NotFound", 0, "_require")
               /\ UNCHANGED mconn
          ELSE /\ mpc' = "validate"
               /\ mconn' = c
               /\ UNCHANGED mresult
    /\ UNCHANGED <<regVars, mreq, mlog, jobVars, notMgrVars>>

LogEntry(connector, method) == [conn |-> connector, method |-> method]

\* Variant: a failed validate is swallowed and the request goes on.
ValidateSwallowsFailure ==
    /\ mpc = "validate"
    /\ mlog' = Append(mlog, LogEntry(mconn, "validate"))
    /\ IF mreq.op = "validate_connector"
       THEN mpc' = "done" /\ mresult' = Res("ok", 0, "validate")
       ELSE mpc' = "act" /\ UNCHANGED mresult
    /\ UNCHANGED <<regVars, mreq, mconn, jobVars, notMgrVars>>

\* await connector.validate(config)
Validate ==
    /\ mpc = "validate"
    /\ mlog' = Append(mlog, LogEntry(mconn, "validate"))
    /\ IF ValidateRaises(mconn.connector_id, mreq.config)
       THEN mpc' = "done" /\ mresult' = Res("InvalidConfig", 0, "validate")
       ELSE IF mreq.op = "validate_connector"
            THEN mpc' = "done" /\ mresult' = Res("ok", 0, "validate")
            ELSE mpc' = "act" /\ UNCHANGED mresult
    /\ UNCHANGED <<regVars, mreq, mconn, jobVars, notMgrVars>>

\* meta = await connector.probe(config); return meta
Probe ==
    /\ mpc = "act"
    /\ mreq.op = "run_probe"
    /\ mlog' = Append(mlog, LogEntry(mconn, "probe"))
    /\ mpc' = "done"
    /\ mresult' = IF ProbeRaises(mconn.connector_id, mreq.config)
                  THEN Res("InvalidConfig", 0, "probe")
                  ELSE Res("ok", 0, "probe")
    /\ UNCHANGED <<regVars, mreq, mconn, jobVars, notMgrVars>>

\* What start_job hands to its caller for the job_id execute returned.
StartJobReturnsNext(job_id) == job_id + 1

\* start_job: "return job_id".
StartJobReturns(job_id) == job_id

\* The outcome of a start_job that got a job id.
JobResult(job_id) == [kind |-> "ok", status |-> 0, src |-> "execute", job |-> job_id]

\* job_id = await connector.execute(job_type, config, params); execute
\* returns str(uuid.uuid4()), a fresh identifier, after its sleep if it has one.
Execute ==
    /\ mpc = "act"
    /\ mreq.op = "start_job"
    /\ mlog' = Append(mlog, LogEntry(mconn, "execute"))
    /\ IF ExecuteSleeps(mconn.connector_id)
       THEN mpc' = "executing" /\ UNCHANGED <<mresult, jobVars>>
       ELSE /\ mpc' = "done"
            /\ nextJob' = nextJob + 1
            /\ mret' = nextJob + 1
            /\ mresult' = JobResult(StartJobReturns(nextJob + 1))
    /\ UNCHANGED <<regVars, mreq, mconn, notMgrVars>>

\* The sleep inside execute ends; the job id goes back to the caller.
ExecuteWake ==
    /\ mpc = "executing"
    /\ mpc' = "done"
    /\ nextJob' = nextJob + 1
    /\ mret' = nextJob + 1
    /\ mresult' = JobResult(StartJobReturns(nextJob + 1))
    /\ UNCHANGED <<regVars, mreq, mconn, mlog, notMgrVars>>

\* The caller's task is cancelled while execute sleeps.
MgrCancel ==
    /\ mpc = "executing"
    /\ mpc' = "done"
    /\ mresult' = Res("Cancelled", 0, "caller")
    /\ UNCHANGED <<regVars, mreq, mconn, mlog, jobVars, notMgrVars>>

\* The caller has the outcome; the next request can start.
MgrReturn ==
    /\ mpc = "done"
    /\ mpc' = "idle"
    /\ mreq' = NoRequest
    /\ mconn' = NoConn
    /\ mlog' = <<>>
    /\ mresult' = NoResult
    /\ mret' = NoneVal
    /\ UNCHANGED <<regVars, nextJob, notMgrVars>>

\* BaseConnector.__init__ arguments of each connector class: group and name.
Group(connector_id) == IF connector_id = "postgres" THEN "db" ELSE "saas"
Name(connector_id) ==
    CASE connector_id = "postgres" -> "PostgreSQL"
      [] connector_id = "salesforce" -> "Salesforce"
      [] connector_id = "jira" -> "Jira"
      [] connector_id = "confluence" -> "Confluence"
      [] OTHER -> "Dummy"

\* Variant: the status follows the outcome of the request that just finished.
DescriptorConnectedAfterCall(c) ==
    [id |-> c.connector_id, group |-> Group(c.connector_id), name |-> Name(c.connector_id),
     status |-> IF mpc = "done" /\ mresult.kind = "ok" /\ mreq.connector_id = c.connector_id
                THEN "connected" ELSE "not_connected",
     meta |-> <<>>, config |-> <<>>, extra_details |-> FALSE]

\* The dict list_connectors appends for one connector.
Descriptor(c) ==
    [id |-> c.connector_id, group |-> Group(c.connector_id), name |-> Name(c.connector_id),
     status |-> "not_connected", meta |-> <<>>, config |-> <<>>, extra_details |-> FALSE]

\* ConnectorManager.list_connectors: one descriptor per registry.all() entry.
\* It is synchronous, so it runs only where no request is mid-step.
ListConnectors ==
    /\ MgrYielded
    /\ rret' = [op |-> "list_connectors",
                value |-> [i \in 1..Len(All(registry)) |-> Descriptor(All(registry)[i])]]
    /\ UNCHANGED <<mgrVars, callVars, pageVars, delayVars, mapVars, walkVars, mirrorVars>>

NextMgr ==
    \/ ImportExamples
    \/ RegisterConnectors
    \/ ListConnectors
    \/ \E op \in MgrOps, id \in RequestIds, config \in MgrConfigs : MgrInvoke(op, id, config)
    \/ Require
    \/ Validate
    \/ Probe
    \/ Execute
    \/ ExecuteWake
    \/ MgrCancel
    \/ MgrReturn

SpecMgr == Init /\ [][NextMgr]_vars

\* ------------------------------------------------------------ the API process
\* The connectors register_connectors() registers, in order: the import of
\* connectors.examples registers postgres and salesforce when the module is
\* not yet imported, then a JiraConnector and a ConfluenceConnector follow.
StartupConnectorsJiraTwice(imp) ==
    (IF imp THEN <<>> ELSE <<"postgres", "salesforce">>) \o <<"jira", "confluence", "jira">>

StartupConnectors(imp) ==
    (IF imp THEN <<>> ELSE <<"postgres", "salesforce">>) \o <<"jira", "confluence">>

\* The instances constructed for these identifiers, numbered from n.
NewConnectors(ids, n) == [i \in 1..Len(ids) |-> Conn(ids[i], n + i - 1)]

RECURSIVE RegisterAll(_, _)
RegisterAll(reg, connectors) ==
    IF connectors = <<>> THEN reg
    ELSE RegisterAll(Register(reg, connectors[1]), SubSeq(connectors, 2, Len(connectors)))

\* _on_startup: the handler runs once, before the application serves its
\* first request.  register_connectors() either registers its connectors and
\* returns True, or an import fails before anything is registered and it
\* returns False (the handler prints a warning and the API starts anyway).
OnStartup(ok) ==
    /\ ~started
    /\ started' = TRUE
    /\ IF ok
       THEN LET new == NewConnectors(StartupConnectors(imported), nextInst)
            IN  /\ registry' = RegisterAll(registry, new)
                /\ regLog' = regLog \o new
                /\ nextInst' = nextInst + Len(new)
                /\ imported' = TRUE
       ELSE UNCHANGED <<registry, regLog, nextInst, imported>>
    /\ UNCHANGED <<reqVars, notMgrVars>>

\* The requests and connector calls the started application is followed with.
AppConfigs ==
    { [base_url |-> "valid", auth_method |-> "oauth2", host |-> TRUE, port |-> TRUE],
      [base_url |-> "absent", auth_method |-> "absent", host |-> FALSE, port |-> FALSE] }

AppInvocations ==
    { Invocation("jira", o, ConfigRec("valid", "api_key", FALSE, FALSE, TRUE, TRUE), "ok", TRUE, TRUE) :
        o \in Ops }

AppRequestIds == {"jira", "postgres", "unknown"}

AppOutcomes == {ProvResp(200, "absent", "json"), ProvResp(503, "absent", "none")}

NextApp ==
    \/ \E ok \in BOOLEAN : OnStartup(ok)
    \/ started /\ ListConnectors
    \/ started /\ \E op \in MgrOps, id \in AppRequestIds, config \in AppConfigs : MgrInvoke(op, id, config)
    \/ started /\ Require
    \/ started /\ Validate
    \/ started /\ Probe
    \/ started /\ Execute
    \/ started /\ ExecuteWake
    \/ started /\ MgrCancel
    \/ started /\ MgrReturn
    \/ started /\ \E inv \in AppInvocations : Invoke(FirstCall, inv, Forever)
    \/ started /\ ValidateArgs(FirstCall)
    \/ started /\ BuildClient(FirstCall)
    \/ started /\ EnterTry(FirstCall)
    \/ started /\ BeginAttempt(FirstCall)
    \/ started /\ \E r \in AppOutcomes : ProviderResponds(FirstCall, r)
    \/ started /\ Wake(FirstCall)
    \/ started /\ PostProcess(FirstCall)
    \/ started /\ Cancel(FirstCall)
    \/ started /\ Close(FirstCall)

SpecApp == Init /\ [][NextApp]_vars

\* ----------------------------------------------------------------- registry
\* The identifiers callers register connectors under (DummyConnector of the
\* registry tests is "dummy").
RegIds == {"dummy", "jira", "postgres"}

\* registry.register(connector) with a newly constructed connector.
RegRegister(connector_id) ==
    /\ nextInst < MaxInst
    /\ registry' = Register(registry, Conn(connector_id, nextInst))
    /\ regLog' = Append(regLog, Conn(connector_id, nextInst))
    /\ nextInst' = nextInst + 1
    /\ rret' = [op |-> "register", connector_id |-> connector_id, raised |-> FALSE]
    /\ UNCHANGED <<imported, started, reqVars, callVars, pageVars, delayVars, mapVars, walkVars, mirrorVars>>

\* registry.get(connector_id)
RegGet(connector_id) ==
    /\ rret' = [op |-> "get", connector_id |-> connector_id,
                value |-> Get(registry, connector_id)]
    /\ UNCHANGED <<mgrVars, callVars, pageVars, delayVars, mapVars, walkVars, mirrorVars>>

\* list(registry.all())
RegAll ==
    /\ rret' = [op |-> "all", value |-> All(registry)]
    /\ UNCHANGED <<mgrVars, callVars, pageVars, delayVars, mapVars, walkVars, mirrorVars>>

NextReg ==
    \/ \E id \in RegIds : RegRegister(id)
    \/ \E id \in RegIds \cup {"unknown"} : RegGet(id)
    \/ RegAll

SpecReg == Init /\ [][NextReg]_vars

\* ------------------------------------------------- register_connectors()
\* How many connector instances repeated calls may construct.
MaxBootInst == 24

\* register_connectors() called by any caller, any number of times.  ok: the
\* three imports succeed; when one raises, nothing has been registered by the
\* call and it returns False.  A module that was imported once stays in
\* sys.modules, so a call after a successful one cannot fail.
RegisterConnectorsReturns(ok) ==
    /\ MgrYielded
    /\ ok \/ ~HasId(registry, "jira")
    /\ IF ok
       THEN LET new == NewConnectors(StartupConnectors(imported), nextInst)
            IN  /\ nextInst + Len(new) <= MaxBootInst
                /\ registry' = RegisterAll(registry, new)
                /\ regLog' = regLog \o new
                /\ nextInst' = nextInst + Len(new)
                /\ imported' = TRUE
       ELSE UNCHANGED <<registry, regLog, nextInst, imported>>
    /\ rret' = [op |-> "register_connectors", value |-> ok, calls |-> Len(regLog')]
    /\ UNCHANGED <<started, reqVars, callVars, pageVars, delayVars, mapVars, walkVars, mirrorVars>>

NextBoot ==
    \/ ImportExamples
    \/ \E ok \in BOOLEAN : RegisterConnectorsReturns(ok)
    \/ \E id \in RequestIds : RegGet(id)
    \/ RegAll
    \/ ListConnectors

SpecBoot == Init /\ [][NextBoot]_vars

\* --------------------------------------------------------------- pagination
\* str(n) of a non-negative int: its decimal digits, most significant first.
RECURSIVE Str(_)
Str(n) == IF n < 10 THEN <<n>> ELSE Append(Str(n \div 10), n % 10)

\* int(s) of a string of decimal digits.
RECURSIVE ParseInt(_)
ParseInt(s) == IF Len(s) = 1 THEN s[1] ELSE 10 * ParseInt(SubSeq(s, 1, Len(s) - 1)) + s[Len(s)]

\* "start = int(cursor) if cursor else 0": None and "" are both falsy.
JiraStart(cursor) == IF cursor = <<>> THEN 0 ELSE ParseInt(cursor)

\* The page metadata of a Jira response: startAt and total (NoneVal when the
\* key is absent), isLast ("absent", "false", "true"), count (the length of
\* the item list the operation reads) and whether an "issues" key is there.
JiraData(s, l, tot, n, ik) ==
    [startAt |-> s, isLast |-> l, total |-> tot, count |-> n, issues_key |-> ik]

\* data.get("startAt", start_at)
DataStart(data, start_at) == IF data.startAt = NoneVal THEN start_at ELSE data.startAt

\* data.get("total", start + len(items))
DataTotal(data, start) == IF data.total = NoneVal THEN start + data.count ELSE data.total

\* Variant: the cursor is the length of the page, not the offset after it.
NextOfPageLength(is_last, start, count) == IF is_last THEN Null ELSE StrVal(Str(count))

\* str(next_cursor) if next_cursor is not None else None
NextOf(is_last, start, count) == IF is_last THEN Null ELSE StrVal(Str(start + count))

\* paged_get, first page: the "issues" branch looks at total only, the other
\* branch at isLast and at a page shorter than maxResults.
PagedGetIsLast(data, start_at, page_size) ==
    LET start == DataStart(data, start_at)
    IN  IF data.issues_key
        THEN start + data.count >= DataTotal(data, start)
        ELSE data.isLast = "true" \/ data.count < page_size

\* list_projects: the first page of paged_get.
ListProjectsNext(data, start_at, page_size) ==
    NextOf(PagedGetIsLast(data, start_at, page_size), DataStart(data, start_at), data.count)

\* Variant: a null cursor only when the page is empty.
TotalReachedOnlyWhenEmpty(data, start_at) == data.count = 0

\* list_issues and list_comments: (start + len(items)) >= total.
TotalReached(data, start_at) ==
    LET start == DataStart(data, start_at)
    IN  start + data.count >= DataTotal(data, start)

ListIssuesNext(data, start_at) ==
    NextOf(TotalReached(data, start_at), DataStart(data, start_at), data.count)

ListCommentsNext(data, start_at) ==
    NextOf(TotalReached(data, start_at), DataStart(data, start_at), data.count)

JiraNext(op, data, start_at, page_size) ==
    CASE op = "containers" -> ListProjectsNext(data, start_at, page_size)
      [] op = "items" -> ListIssuesNext(data, start_at)
      [] op = "comments" -> ListCommentsNext(data, start_at)

\* The inputs of a Jira list call.
SampleStarts == {0, 8, 99, 100}
JiraCursors == {<<>>} \cup {Str(s) : s \in SampleStarts}
Limits == (1..MaxPageSize) \cup {50}
Counts == (0..MaxPageSize) \cup {20, 50}
IsLastFlags == {"absent", "false", "true"}
JiraDatas(op, start) ==
    { JiraData(s, l, tot, n, ik) :
        s \in {NoneVal, start, start + 1},
        l \in IsLastFlags,
        tot \in {NoneVal, 0, 120} \cup {start + k : k \in 1..(MaxPageSize + 1)},
        n \in Counts,
        ik \in IF op = "containers" THEN BOOLEAN ELSE {op = "items"} }

\* containers / items / comments of JiraConnector with a parseable cursor:
\* the query sent, the page metadata received, the next cursor returned.
JiraList(op, limit, cursor, data) ==
    /\ page = NoPage
    /\ page' = [provider |-> "jira", op |-> op, limit |-> limit, cursor |-> cursor,
                data |-> data]
    /\ pquery' = [startAt |-> JiraStart(cursor), maxResults |-> limit]
    /\ pnext' = JiraNext(op, data, JiraStart(cursor), limit)
    /\ UNCHANGED notPageVars

\* The Confluence response's link metadata: no "_links" key, "_links" without
\* "next", or "_links" with "next" holding a value.
NoLinks == [links |-> FALSE, has_next |-> FALSE, next |-> Null]
LinksWithoutNext == [links |-> TRUE, has_next |-> FALSE, next |-> Null]
LinksNext(v) == [links |-> TRUE, has_next |-> TRUE, next |-> v]

\* Variant: a next link that holds no string counts as absent.
ConfluenceNextOrEmpty(data) ==
    IF data.links /\ data.has_next /\ ~data.next.null THEN data.next ELSE StrVal("")

\* if "_links" in data and "next" in data["_links"]: next = data["_links"]["next"]
ConfluenceNext(data) ==
    IF data.links /\ data.has_next THEN data.next ELSE Null

\* params = {"limit": limit}; if cursor: params["cursor"] = cursor
ConfluenceParams(limit, cursor) ==
    IF cursor.null \/ cursor.str = ""
    THEN [limit |-> limit, has_cursor |-> FALSE, cursor |-> Null]
    ELSE [limit |-> limit, has_cursor |-> TRUE, cursor |-> cursor]

ConfluenceCursors ==
    {Null, StrVal(""), StrVal("cur1"), StrVal("/wiki/api/v2/spaces?cursor=cur1&limit=50")}
ConfluenceDatas ==
    {NoLinks, LinksWithoutNext} \cup {LinksNext(v) : v \in ConfluenceCursors}

\* containers / items / comments of ConfluenceConnector.
ConfluenceList(op, limit, cursor, data) ==
    /\ page = NoPage
    /\ page' = [provider |-> "confluence", op |-> op, limit |-> limit, cursor |-> cursor,
                data |-> data]
    /\ pquery' = ConfluenceParams(limit, cursor)
    /\ pnext' = ConfluenceNext(data)
    /\ UNCHANGED notPageVars

\* The caller has the page; the next list call can start.
PageReturn ==
    /\ page # NoPage
    /\ page' = NoPage
    /\ pquery' = NoPage
    /\ pnext' = Null
    /\ UNCHANGED notPageVars

NextPage ==
    \/ /\ page = NoPage
       /\ \E op \in ListOps, limit \in Limits, cursor \in JiraCursors :
             \E data \in JiraDatas(op, JiraStart(cursor)) : JiraList(op, limit, cursor, data)
    \/ /\ page = NoPage
       /\ \E op \in ListOps, limit \in Limits, cursor \in ConfluenceCursors,
             data \in ConfluenceDatas : ConfluenceList(op, limit, cursor, data)
    \/ PageReturn

SpecPage == Init /\ [][NextPage]_vars

\* ------------------------------------------------------- following cursors
\* A caller lists a Jira collection of n entries, numbered 1..n in the
\* provider's order: the first call has no cursor, each further call passes the
\* cursor the previous one returned.
MaxEntries == 5
MaxWalkCalls == MaxEntries + 2

Entries(n) == [i \in 1..n |-> i]

\* How many entries the provider may put in the page at offset start when
\* maxResults = limit: at least one and at most limit while entries remain.
ServedCounts(n, start, limit) ==
    IF start >= n THEN {0} ELSE 1..Min(limit, n - start)

\* The answer of a provider that serves its n entries honestly: startAt
\* echoed, total and isLast correct; "issues" is the key of the search
\* endpoint only.
HonestPage(op, n, start, count) ==
    JiraData(start, IF start + count >= n THEN "true" ELSE "false", n, count, op = "items")

WalkStart(op, limit, n) ==
    /\ walk = NoWalk
    /\ walk' = [op |-> op, limit |-> limit, n |-> n, cursor |-> <<>>, visited |-> <<>>,
                calls |-> 0, short |-> FALSE, ended |-> FALSE]
    /\ UNCHANGED notWalkVars

\* One call of containers / items / comments: start = int(cursor) if cursor
\* else 0, the page the provider serves, the entries returned to the caller and
\* the next cursor.
WalkCall(count) ==
    /\ walk # NoWalk
    /\ ~walk.ended
    /\ walk.calls < MaxWalkCalls
    /\ LET start == JiraStart(walk.cursor)
           data == HonestPage(walk.op, walk.n, start, count)
           next == JiraNext(walk.op, data, start, walk.limit)
       IN  /\ count \in ServedCounts(walk.n, start, walk.limit)
           /\ walk' = [walk EXCEPT
                         !.visited = @ \o SubSeq(Entries(walk.n), start + 1, start + count),
                         !.calls = @ + 1,
                         !.short = @ \/ count < Min(walk.limit, walk.n - start),
                         !.cursor = IF next = Null THEN <<>> ELSE next.str,
                         !.ended = (next = Null)]
    /\ UNCHANGED notWalkVars

NextWalk ==
    \/ /\ walk = NoWalk
       /\ \E op \in ListOps, limit \in 1..MaxPageSize, n \in 0..MaxEntries :
             WalkStart(op, limit, n)
    \/ \E count \in 0..MaxPageSize : WalkCall(count)

SpecWalk == Init /\ [][NextWalk]_vars /\ WF_vars(NextWalk)

\* ================================================================== claims
Ended(c) == pc[c] \in {"finally", "done"}

\* C1: when every attempt of a _request call receives a retryable status, the
\* client sends exactly max_retries+1 requests and fails with the status error
\* of the last response; when the first response is a 400, exactly one request
\* is sent and nothing is slept or retried.
C1_RetriesExactlyMaxRetries ==
    \A c \in CallIds :
        /\ (Ended(c) /\ result[c].src \in {"retries", "retry_after"} /\ ~net[c].timedOut)
              => /\ net[c].requests = DefaultMaxRetries + 1
                 /\ result[c] = Res("HTTPStatusError", resp[c].status, "retries")
        /\ (attempt[c] = 1 /\ resp[c].kind = "resp" /\ resp[c].status = 400)
              => /\ net[c].requests = 1
                 /\ net[c].sleeps = 0
                 /\ pc[c] \in {"returned", "finally", "done"}

\* C2: a request is retried only after a timeout or a status in
\* {429,500,502,503,504}; any other response ends _request on the attempt that
\* received it, with no further sleep, refresh or request, and the caller's
\* result depends on that response alone.
C2_State ==
    \A c \in CallIds :
        /\ pc[c] = "sleeping"
              => resp[c].kind = "timeout" \/ resp[c].status \in {429, 500, 502, 503, 504}
        /\ pc[c] = "returned"
              => resp[c].kind = "resp" /\ resp[c].status \notin {429, 500, 502, 503, 504}
        /\ (Ended(c) /\ result[c].src = "provider")
              => result[c] = ResultOf(resp[c])
        /\ (pc[c] = "loop" /\ attempt[c] >= 1) => net[c].sleeps = attempt[c]

C2_Step ==
    \A c \in CallIds :
        /\ (pc[c] = "inflight" /\ resp'[c].kind = "resp"
                /\ resp'[c].status \notin {429, 500, 502, 503, 504})
              => pc'[c] = "returned"
        /\ pc[c] \in {"returned", "finally", "done"}
              => /\ net'[c].requests = net[c].requests
                 /\ net'[c].sleeps = net[c].sleeps
                 /\ net'[c].refreshes = net[c].refreshes
                 /\ attempt'[c] = attempt[c]
                 /\ resp'[c] = resp[c]

PcRank(c) ==
    CASE pc[c] = "idle" -> 0
      [] pc[c] = "entered" -> 1
      [] pc[c] = "validated" -> 2
      [] pc[c] = "try" -> 3
      [] pc[c] = "loop" -> 4 + 4 * attempt[c]
      [] pc[c] = "refreshing" -> 4 * attempt[c] + 1
      [] pc[c] = "inflight" -> 4 * attempt[c] + 2
      [] pc[c] = "sleeping" -> 4 * attempt[c] + 3
      [] pc[c] = "returned" -> 4 * (DefaultMaxRetries + 3) + 1
      [] pc[c] = "finally" -> 4 * (DefaultMaxRetries + 3) + 2
      [] pc[c] = "done" -> 4 * (DefaultMaxRetries + 3) + 3

C3_State ==
    \A c \in CallIds :
        /\ net[c].requests <= DefaultMaxRetries + 1
        /\ attempt[c] <= DefaultMaxRetries + 1
        /\ net[c].requests <= attempt[c]
        /\ pc[c] = "sleeping" => attempt[c] <= DefaultMaxRetries
        /\ result[c].src = "retries"
              => /\ attempt[c] = DefaultMaxRetries + 1
                 /\ net[c].requests = DefaultMaxRetries + 1
                 /\ resp[c].kind = "timeout" => result[c] = Res("Timeout", 0, "retries")
                 /\ resp[c].kind = "resp"
                       => result[c] = Res("HTTPStatusError", resp[c].status, "retries")
        /\ PcRank(c) <= 4 * (DefaultMaxRetries + 3) + 3

C3_Step ==
    \/ now' > now
    \/ \E c \in CallIds : PcRank(c)' > PcRank(c)

\* C3: whatever mix of timeouts and retryable statuses arrives, _request sends
\* at most max_retries+1 requests, always advances, and ends with the last
\* attempt's outcome (C3_State, C3_Step).
C3_BoundedAttempts == []C3_State /\ [][C3_Step]_vars

C3_Witness ==
    \E c \in CallIds :
        /\ pc[c] = "done"
        /\ net[c].timedOut
        /\ result[c] = Res("HTTPStatusError", 503, "retries")

\* C4 (as claimed): in every attempt refresh_if_needed is called before the
\* request is sent, and at most one request per strategy instance carries an
\* expired access token.
C4_AtMostOneStale ==
    \A c \in CallIds :
        /\ pc[c] \in {"refreshing", "inflight"} => net[c].checks = attempt[c]
        /\ net[c].requests <= net[c].checks
        /\ net[c].stale <= 1

\* C4 (amended): in every attempt refresh_if_needed is called before the
\* request is sent, and an OAuth2 strategy that holds a refresh token sends at
\* most one request with an expired access token.
C4_AtMostOneStaleWithRefreshToken ==
    \A c \in CallIds :
        /\ pc[c] \in {"refreshing", "inflight"} => net[c].checks = attempt[c]
        /\ net[c].requests <= net[c].checks
        /\ (auth[c].method = "oauth2" /\ auth[c].refresh_token) => net[c].stale <= 1

C4_Witness ==
    \E c \in CallIds :
        /\ pc[c] = "inflight"
        /\ auth[c].method = "oauth2" /\ auth[c].refresh_token
        /\ attempt[c] = 3 /\ net[c].refreshes = 2 /\ now = 2
        /\ reqCred[c].authorization = 2

\* C5: refresh_if_needed sends nothing to the token endpoint when the access
\* token is unexpired by the recorded expiry (which lies the safety margin
\* before the real expiry) or when no refresh token is configured, and then
\* leaves the access token and the recorded expiry as they were.
C5_State ==
    \A c \in CallIds :
        auth[c].exp # NoneVal => auth[c].exp <= trueExp[c] - RefreshMargin

C5_Step ==
    \A c \in CallIds :
        (/\ pc[c] = "loop"
         /\ pc'[c] # "loop"
         /\ \/ (auth[c].access_token # NoneVal /\ auth[c].exp # NoneVal /\ now < auth[c].exp)
            \/ ~auth[c].refresh_token)
        => /\ pc'[c] # "refreshing"
           /\ net'[c].refreshes = net[c].refreshes
           /\ auth'[c] = auth[c]

\* C5: no token-endpoint request, and token and recorded expiry unchanged, when
\* the token is unexpired or no refresh token is configured (C5_State, C5_Step).
C5_NoRefreshWhenUnexpired == []C5_State /\ [][C5_Step]_vars

C5_Witness ==
    \E c \in CallIds :
        /\ pc[c] = "inflight"
        /\ attempt[c] = 2
        /\ auth[c].refresh_token
        /\ auth[c].exp # NoneVal /\ now < auth[c].exp
        /\ net[c].refreshes = 1

\* C6: a non-2xx answer of the token endpoint makes refresh_if_needed fail
\* with the token-refresh (status) error; the failure is not retried, no
\* provider request follows, and access token and expiry stay as they were.
C6_Step ==
    \A c \in CallIds :
        /\ (pc[c] = "refreshing" /\ net'[c].tokenNon2xx /\ ~net[c].tokenNon2xx)
              => /\ pc'[c] = "finally"
                 /\ result'[c].kind = "HTTPStatusError" /\ result'[c].src = "token"
                 /\ auth'[c] = auth[c]
                 /\ net'[c].requests = net[c].requests
        /\ net[c].tokenNon2xx
              => /\ net'[c].requests = net[c].requests
                 /\ net'[c].refreshes = net[c].refreshes

\* C6: a non-2xx token response fails the refresh with the status error, is not
\* retried, is followed by no provider request and leaves token and expiry
\* unchanged, for Jira and for Confluence (C6_Step).
C6_RefreshFailureSurfaces == [][C6_Step]_vars

\* The state part shared by both readings of C7; anyRequest says whether the
\* error must come before every provider request or before the attempt's own.
C7_State(anyRequest) ==
    \A c \in CallIds :
        /\ pc[c] = "inflight"
              => IF auth[c].method = "api_key"
                 THEN auth[c].api_email /\ auth[c].api_token
                 ELSE auth[c].access_token # NoneVal
        /\ result[c].kind = "MissingCredentials"
              => /\ Ended(c)
                 /\ IF anyRequest THEN net[c].requests = 0
                    ELSE net[c].requests = attempt[c] - 1
        /\ (Ended(c) /\ attempt[c] = 1 /\ net[c].refreshes = 0 /\ net[c].requests = 0)
              => result[c].kind = "MissingCredentials"
        /\ auth[c].method = "api_key"
              => /\ net[c].refreshes = 0
                 /\ auth[c] = BuildAuth(call[c].config)

\* C7 (as claimed): when the auth headers cannot be built the call fails with
\* the missing-credentials error before any provider request is sent; the
\* api_key strategy never changes and never refreshes.
C7_MissingBeforeAnyRequest == C7_State(TRUE)

\* C7 (amended): when the auth headers of an attempt cannot be built the call
\* fails with the missing-credentials error before that attempt's provider
\* request is sent (before any request when the credentials are missing from
\* the start); the api_key strategy never changes and never refreshes.
C7_MissingBeforeTheAttemptsRequest == C7_State(FALSE)

C7_Witness ==
    \E c \in CallIds :
        /\ pc[c] = "done"
        /\ result[c].kind = "MissingCredentials"
        /\ auth[c].method = "api_key"
        /\ ~auth[c].api_token

\* C8: every provider client a connector operation opens is closed exactly
\* once before the operation ends, whatever way it ends, and none is open
\* once the call is done.
C8_ClosedExactlyOnce ==
    \A c \in CallIds :
        /\ net[c].opened <= 1
        /\ net[c].closed <= net[c].opened
        /\ pc[c] \in {"idle", "entered", "validated"} => net[c].opened = 0
        /\ pc[c] \in {"try", "loop", "refreshing", "inflight", "sleeping", "returned", "finally"}
              => net[c].opened = 1 /\ net[c].closed = 0
        /\ pc[c] = "done" => net[c].closed = net[c].opened
        /\ (pc[c] = "done" /\ result[c].kind \notin {"InvalidConfig", "AttributeError"})
              => net[c].opened = 1 /\ net[c].closed = 1
        /\ result[c].kind \in {"BadCursor", "MissingCredentials", "HTTPStatusError", "Timeout",
                               "Cancelled", "ValueError", "DecodeError", "ok"}
              => Ended(c) /\ net[c].opened = 1

C8_Witness ==
    \E c \in CallIds :
        /\ pc[c] = "done"
        /\ call[c].op = "comments" /\ call[c].provider = "jira"
        /\ result[c].kind = "BadCursor"
        /\ net[c].opened = 1 /\ net[c].closed = 1

\* The config lacks a field the connector class requires.
LacksRequiredField(connector_id, config) ==
    \/ /\ connector_id \in {"jira", "confluence"}
       /\ (config.base_url = "absent" \/ config.auth_method = "absent")
    \/ /\ connector_id = "postgres"
       /\ (~config.host \/ ~config.port)

C9_Step ==
    (/\ mpc = "validate"
     /\ mpc' # "validate"
     /\ LacksRequiredField(mconn.connector_id, mreq.config))
        => /\ mpc' = "done"
           /\ mresult' = Res("InvalidConfig", 0, "validate")
           /\ mlog' = Append(mlog, LogEntry(mconn, "validate"))
           /\ net' = net
           /\ pc' = pc /\ auth' = auth

C9_State ==
    (mresult.kind = "InvalidConfig" /\ mresult.src = "validate")
        => /\ mpc = "done"
           /\ \A c \in CallIds : net[c].requests = 0 /\ net[c].refreshes = 0 /\ net[c].opened = 0

\* C9: validate of a connector, given a config that lacks a field the connector
\* requires (Jira, Confluence: base_url or auth_method; Postgres: host or
\* port), fails with the invalid-config error, sends nothing on the network
\* and opens no provider client.
C9_ValidateRejectsMissingField == []C9_State /\ [][C9_Step]_vars

C9_Witness ==
    /\ mpc = "done"
    /\ mresult = Res("InvalidConfig", 0, "validate")
    /\ mconn.connector_id = "postgres"
    /\ mreq.config.host /\ ~mreq.config.port
    /\ mreq.op = "validate_connector"

Unregistered(connector_id) ==
    \A i \in 1..Len(registry) : registry[i].connector_id # connector_id

C10_Step ==
    (/\ mpc = "require"
     /\ mpc' # "require"
     /\ mreq.op \in {"run_probe", "start_job"}
     /\ Unregistered(mreq.connector_id))
        => /\ mpc' = "done"
           /\ mresult' = Res("NotFound", 0, "_require")
           /\ mlog' = <<>>

C10_State ==
    /\ mpc = "require" => mlog = <<>>
    /\ mresult.kind = "NotFound" => mpc = "done" /\ mlog = <<>> /\ mconn = NoConn

\* C10: run_probe and start_job, called with an identifier the registry does
\* not hold, fail with the not-found error, and no connector's validate, probe
\* or execute has been called when they do.
C10_UnknownIdNotFound == []C10_State /\ [][C10_Step]_vars

C10_Witness ==
    /\ mpc = "done"
    /\ mresult = Res("NotFound", 0, "_require")
    /\ mreq.op = "start_job"
    /\ mreq.connector_id = "unknown"
    /\ Len(registry) = 4

\* validate of the connector class rejects the config: a required field is
\* missing or, for Jira and Confluence, base_url is not a URL.
ConfigRejected(connector_id, config) ==
    \/ LacksRequiredField(connector_id, config)
    \/ connector_id \in {"jira", "confluence"} /\ config.base_url = "malformed"

\* The connector the registry holds under the request's identifier.
RegisteredConn(connector_id) ==
    registry[CHOOSE i \in 1..Len(registry) : registry[i].connector_id = connector_id]

C11_State ==
    mreq.op = "run_probe" =>
        /\ mpc = "validate"
              => /\ mlog = <<>>
                 /\ ~Unregistered(mreq.connector_id)
                 /\ mconn = RegisteredConn(mreq.connector_id)
        /\ mpc = "act"
              => /\ mlog = <<LogEntry(mconn, "validate")>>
                 /\ mconn = RegisteredConn(mreq.connector_id)
                 /\ mresult = NoResult
        /\ (mpc = "done" /\ mresult.kind # "NotFound")
              => /\ mconn.connector_id = mreq.connector_id
                 /\ IF ConfigRejected(mreq.connector_id, mreq.config)
                    THEN /\ mlog = <<LogEntry(mconn, "validate")>>
                         /\ mresult = Res("InvalidConfig", 0, "validate")
                    ELSE /\ mlog = <<LogEntry(mconn, "validate"), LogEntry(mconn, "probe")>>
                         /\ mresult = Res("ok", 0, "probe")
        /\ mpc # "executing"

C11_Step ==
    (mreq.op = "run_probe" /\ mpc = "validate" /\ mpc' # "validate")
        => IF mresult' # NoResult
           THEN mpc' = "done" /\ mresult'.kind = "InvalidConfig"
           ELSE mpc' = "act"

\* C11: run_probe on a registered connector calls validate and then, only when
\* validate did not fail, probe, each once and on the connector registered
\* under the identifier; what either raises is the caller's outcome, and probe
\* is not called after a failed validate.
C11_ValidateThenProbe == []C11_State /\ [][C11_Step]_vars

C11_Witness ==
    /\ mpc = "done"
    /\ mreq.op = "run_probe"
    /\ mreq.connector_id = "jira"
    /\ mlog = <<LogEntry(mconn, "validate"), LogEntry(mconn, "probe")>>
    /\ mresult = Res("ok", 0, "probe")

C12_State ==
    mreq.op = "start_job" =>
        /\ mpc \in {"require", "validate"} => mlog = <<>> /\ mret = NoneVal
        /\ mpc = "act"
              => /\ mlog = <<LogEntry(mconn, "validate")>>
                 /\ ~ConfigRejected(mreq.connector_id, mreq.config)
                 /\ mret = NoneVal
        /\ mpc = "executing"
              => /\ mlog = <<LogEntry(mconn, "validate"), LogEntry(mconn, "execute")>>
                 /\ mret = NoneVal
        /\ mpc = "done"
              => /\ \A i \in 1..Len(mlog) :
                        mlog[i].method = "execute"
                            => /\ mresult.kind \notin {"NotFound", "InvalidConfig"}
                               /\ ~ConfigRejected(mreq.connector_id, mreq.config)
                 /\ mresult.kind = "NotFound" => mlog = <<>>
                 /\ mresult.kind = "InvalidConfig" => mlog = <<LogEntry(mconn, "validate")>>
                 /\ mresult.kind \in {"ok", "Cancelled"}
                        => mlog = <<LogEntry(mconn, "validate"), LogEntry(mconn, "execute")>>
                 /\ mresult.kind = "ok"
                        => /\ mret # NoneVal
                           /\ mresult = JobResult(mret)
                 /\ mresult.kind # "ok" => mret = NoneVal

\* C12: start_job on a registered connector calls validate and then execute,
\* each once; execute is not called when the lookup or validate failed; the
\* job identifier execute returned is what the caller gets.
C12_ValidateThenExecute == C12_State

C12_Witness ==
    /\ mpc = "done"
    /\ mreq.op = "start_job"
    /\ mreq.connector_id = "postgres"
    /\ mlog = <<LogEntry(mconn, "validate"), LogEntry(mconn, "execute")>>
    /\ mret = 2
    /\ mresult = JobResult(2)

\* The decimal string of a number below 1000, digit by digit.
DecimalString(n) ==
    IF n < 10 THEN <<n>>
    ELSE IF n < 100 THEN <<n \div 10, n % 10>>
    ELSE <<n \div 100, (n \div 10) % 10, n % 10>>

\* The start offset of the page received: the response's startAt, or the
\* offset asked for when the response does not say.
PageStart == IF page.data.startAt = NoneVal THEN pquery.startAt ELSE page.data.startAt

\* C13: for the Jira list operations, a full page with startAt + itemCount <
\* total (and no isLast flag set) gives next = the decimal string of startAt +
\* itemCount; a page shorter than the page size with startAt + itemCount >=
\* total gives next = null.
C13_OffsetPageExamples ==
    (page.provider = "jira" /\ page.data.total # NoneVal) =>
        /\ (/\ page.data.count = page.limit
            /\ PageStart + page.data.count < page.data.total
            /\ page.data.isLast # "true")
              => pnext = StrVal(DecimalString(PageStart + page.data.count))
        /\ (/\ page.data.count < page.limit
            /\ PageStart + page.data.count >= page.data.total)
              => pnext = Null

C13_Witness ==
    /\ page.provider = "jira"
    /\ page.op = "items"
    /\ page.limit = 50 /\ pquery.startAt = 0
    /\ page.data.count = 50 /\ page.data.total = 120
    /\ pnext = StrVal(<<5, 0>>)

\* The page is the last one by the rule of the specification.
IsLastByRule ==
    \/ page.data.isLast = "true"
    \/ page.data.count < page.limit
    \/ page.data.total # NoneVal /\ PageStart + page.data.count >= page.data.total

\* C14: for every Jira list operation and every page metadata, next is null
\* exactly when the isLast flag is set or fewer items than the page size came
\* back or startAt + itemCount >= total, and otherwise the decimal string of
\* startAt + itemCount.
C14_NextNullExactlyWhenLast ==
    page.provider = "jira" =>
        pnext = IF IsLastByRule THEN Null
                ELSE StrVal(DecimalString(PageStart + page.data.count))

\* C15: for each Confluence list operation next is the value of _links.next
\* of the response when that key is there and null otherwise, and a cursor the
\* caller supplies (a non-empty string) is sent unmodified as the cursor query
\* parameter; without one no cursor parameter is sent.
C15_ConfluenceCursor ==
    page.provider = "confluence" =>
        /\ IF page.data.links /\ page.data.has_next
           THEN pnext = page.data.next
           ELSE pnext = Null
        /\ pquery.limit = page.limit
        /\ IF page.cursor # Null /\ page.cursor # StrVal("")
           THEN pquery.has_cursor /\ pquery.cursor = page.cursor
           ELSE ~pquery.has_cursor

C15_Witness ==
    /\ page.provider = "confluence"
    /\ page.op = "comments"
    /\ page.cursor = StrVal("cur1")
    /\ pquery.has_cursor /\ pquery.cursor = StrVal("cur1")
    /\ page.data = LinksNext(StrVal("/wiki/api/v2/spaces?cursor=cur1&limit=50"))
    /\ pnext = StrVal("/wiki/api/v2/spaces?cursor=cur1&limit=50")

\* The identifiers register was called with, and the connector most recently
\* registered under one of them.
RegisteredIds == {regLog[i].connector_id : i \in 1..Len(regLog)}
LastRegistered(connector_id) ==
    regLog[CHOOSE i \in 1..Len(regLog) :
              /\ regLog[i].connector_id = connector_id
              /\ \A j \in (i + 1)..Len(regLog) : regLog[j].connector_id # connector_id]

\* C16: after any sequence of register calls the registry holds exactly one
\* entry per identifier registered, get(id) returns the connector most
\* recently registered under id, and no register call raised.
C16_LastRegistrationWins ==
    /\ {registry[i].connector_id : i \in 1..Len(registry)} = RegisteredIds
    /\ Len(registry) = Cardinality(RegisteredIds)
    /\ \A id \in RegisteredIds : Get(registry, id) = LastRegistered(id)
    /\ (rret.op = "get" /\ rret.connector_id \in RegisteredIds)
          => rret.value = LastRegistered(rret.connector_id)
    /\ rret.op = "register"
          => ~rret.raised /\ regLog[Len(regLog)].connector_id = rret.connector_id

C16_Witness ==
    /\ regLog = <<Conn("dummy", 0), Conn("dummy", 1)>>
    /\ Len(registry) = 1
    /\ rret.op = "get" /\ rret.connector_id = "dummy"
    /\ rret.value = Conn("dummy", 1)

C17_State ==
    rret.op = "get" =>
        IF rret.connector_id \in RegisteredIds
        THEN /\ rret.value.connector_id = rret.connector_id
             /\ \E i \in 1..Len(regLog) : regLog[i] = rret.value
        ELSE rret.value = NoConn

C17_Step ==
    (rret'.op \in {"get", "all"})
        => /\ registry' = registry
           /\ regLog' = regLog
           /\ nextInst' = nextInst

\* C17: get(id) returns the very connector that was registered under id, or
\* the absent value when none was; get and all construct nothing and leave
\* the registry as it was.
C17_GetAndAllReadOnly == []C17_State /\ [][C17_Step]_vars

C17_Witness ==
    /\ rret.op = "get" /\ rret.connector_id = "unknown"
    /\ rret.value = NoConn
    /\ Len(registry) = 2

\* The identifiers in the order of their first registration.
RECURSIVE FirstOrder(_)
FirstOrder(log) ==
    IF log = <<>> THEN <<>>
    ELSE LET front == FirstOrder(SubSeq(log, 1, Len(log) - 1))
             id == log[Len(log)].connector_id
         IN  IF \E i \in 1..Len(front) : front[i] = id THEN front ELSE Append(front, id)

\* C18 (as claimed): all() yields every registered connector exactly once, in
\* the order in which the connectors were registered.
C18_AllInRegistrationOrder ==
    rret.op = "all" =>
        /\ Len(rret.value) = Cardinality(RegisteredIds)
        /\ \A id \in RegisteredIds :
              \E i \in 1..Len(rret.value) : rret.value[i] = LastRegistered(id)
        /\ \A i \in 1..Len(rret.value), j \in 1..Len(rret.value) :
              i < j => rret.value[i].n < rret.value[j].n

C18_State ==
    rret.op = "all" =>
        /\ Len(rret.value) = Cardinality(RegisteredIds)
        /\ \A i \in 1..Len(rret.value) :
              rret.value[i] = LastRegistered(FirstOrder(regLog)[i])

C18_Step ==
    (rret.op = "all" /\ rret'.op = "all") => rret'.value = rret.value

\* C18 (amended): all() yields every registered connector exactly once, in
\* the order in which their identifiers were first registered (a connector
\* registered over an earlier one takes that one's place), and iterating
\* again while the registry is unchanged yields the same sequence.
C18_AllInFirstRegistrationOrder == []C18_State /\ [][C18_Step]_vars

C18_Witness ==
    /\ regLog = <<Conn("dummy", 0), Conn("jira", 1), Conn("dummy", 2)>>
    /\ rret.op = "all"
    /\ rret.value = <<Conn("dummy", 2), Conn("jira", 1)>>

\* C19: once the connectors package and the registry module have been
\* imported (every state from the initial one on), the process-wide registry
\* contains jira, confluence, salesforce and postgres, and get("jira") returns
\* a connector whose connector_id is "jira".
C19_RegistryPopulatedOnImport ==
    /\ \A id \in ConnectorIds : HasId(registry, id)
    /\ Get(registry, "jira").connector_id = "jira"

C20_State ==
    rret.op = "list_connectors" =>
        /\ \A i \in 1..Len(rret.value) : rret.value[i].status = "not_connected"
        /\ \A i \in 1..Len(rret.value), j \in 1..Len(rret.value) :
              rret.value[i].id = rret.value[j].id => i = j

C20_Step ==
    (rret'.op = "list_connectors" /\ rret' # rret) =>
        /\ Len(rret'.value) = Len(registry)
        /\ \A i \in 1..Len(registry) :
              /\ rret'.value[i].id = registry[i].connector_id
              /\ rret'.value[i].group = Group(registry[i].connector_id)
              /\ rret'.value[i].name = Name(registry[i].connector_id)
              /\ rret'.value[i].status = "not_connected"

\* C20: list_connectors returns exactly one descriptor per registered
\* connector, with that connector's identifier, group and name, and every
\* descriptor's status is not_connected whatever calls were made before.
C20_ListConnectorsNotConnected == []C20_State /\ [][C20_Step]_vars

C20_Witness ==
    /\ rret.op = "list_connectors"
    /\ Len(rret.value) = 4
    /\ rret.value[1] = [id |-> "postgres", group |-> "db", name |-> "PostgreSQL",
                        status |-> "not_connected", meta |-> <<>>, config |-> <<>>,
                        extra_details |-> FALSE]
    /\ rret.value[3].id = "jira" /\ rret.value[3].name = "Jira"
    /\ mpc = "done" /\ mresult.kind = "ok" /\ mreq.op = "run_probe"
    /\ mreq.connector_id = "jira"
    /\ nextInst = 6

C21_State ==
    \A i \in 1..Len(regLog), j \in 1..Len(regLog) :
        regLog[i].connector_id = regLog[j].connector_id => i = j

C21_Step ==
    /\ (registry' # registry \/ regLog' # regLog) => (~started /\ started')
    /\ started => (registry' = registry /\ regLog' = regLog)

\* C21: each connector identifier is written to the registry at most once,
\* in the step of the startup handler, and once the application has started
\* no manager operation (list_connectors, run_probe, start_job) and no
\* connector operation (validate, probe, execute, containers, items,
\* comments, create) changes the registry.
C21_RegistryWrittenOnceAtStartup == []C21_State /\ [][C21_Step]_vars

C21_Witness ==
    /\ started
    /\ regLog = <<Conn("postgres", 0), Conn("salesforce", 1), Conn("jira", 2), Conn("confluence", 3)>>
    /\ registry = regLog
    /\ rret.op = "list_connectors"
    /\ mpc = "done" /\ mreq.op = "start_job" /\ mresult.kind = "ok"
    /\ pc[FirstCall] = "done" /\ call[FirstCall].op = "create"
    /\ result[FirstCall].kind = "ok"

\* Everything call c owns: its position, arguments, strategy, attempt
\* counter, held response, client counters and outcome.
Local(c) ==
    <<pc[c], call[c], auth[c], attempt[c], resp[c], net[c], result[c], reqCred[c], trueExp[c]>>

HasClient(c) == pc[c] \notin {"idle", "entered", "validated"} /\ net[c].opened = 1

C22_State ==
    \A c \in CallIds :
        HasClient(c) =>
            /\ auth[c].method = call[c].config.auth_method
            /\ auth[c].access_token <= net[c].refreshes
            /\ attempt[c] = net[c].checks
            /\ net[c].closed = IF pc[c] = "done" THEN 1 ELSE 0
            /\ result[c].src = "provider" => result[c] = ResultOf(resp[c])

C22_Step ==
    \A c \in CallIds, d \in CallIds :
        (c # d /\ Local(c)' # Local(c)) => Local(d)' = Local(d)

\* C22: two calls to containers/items/comments/create that run concurrently,
\* also with the same configuration, each use their own client and their own
\* auth strategy: a step of one call (a token refresh, the retry counter, the
\* close) changes nothing the other call holds, and a call's strategy,
\* counters and outcome follow from its own requests alone.
C22_CallsShareNothing == []C22_State /\ [][C22_Step]_vars

C22_Witness ==
    /\ call[1].config = call[2].config
    /\ pc[2] = "done" /\ result[2].kind = "HTTPStatusError" /\ net[2].closed = 1
    /\ auth[2].access_token = 0 /\ attempt[2] = 1
    /\ pc[1] = "inflight" /\ auth[1].access_token = 1 /\ attempt[1] = 2
    /\ net[1].closed = 0

\* The refresh token a refresh exchange of call c carries: the one of the
\* call's configuration (refresh_if_needed sends self.refresh_token, which
\* set_token never replaces).
SentRefreshToken(c) == [config |-> call[c].config, present |-> auth[AuthOf(c)].refresh_token]

\* C23: concurrent calls that share one configuration never have refresh
\* exchanges in flight at the same time that carry the same refresh token.
C23_NoDuplicateRefresh ==
    \A c \in CallIds, d \in CallIds :
        (c # d /\ pc[c] = "refreshing" /\ pc[d] = "refreshing")
            => SentRefreshToken(c) # SentRefreshToken(d)

C24_State ==
    \A c \in CallIds :
        net[c].cancelled =>
            /\ result[c] = Res("Cancelled", 0, "caller")
            /\ pc[c] \in {"finally", "done"}
            /\ net[c].closed = IF pc[c] = "done" THEN 1 ELSE 0

C24_Step ==
    \A c \in CallIds :
        /\ (~net[c].cancelled /\ net'[c].cancelled)
              => /\ pc[c] \in {"refreshing", "inflight", "sleeping"}
                 /\ net'[c].requests = net[c].requests
                 /\ net'[c].refreshes = net[c].refreshes
        /\ net[c].cancelled
              => /\ net'[c].requests = net[c].requests
                 /\ net'[c].refreshes = net[c].refreshes
                 /\ attempt'[c] = attempt[c]
                 /\ result'[c] = result[c]
                 /\ pc'[c] # pc[c] => (pc'[c] = "done" /\ net'[c].closed = 1)

\* C24: when the caller's cancellation reaches _request (while a request is
\* in flight or while the executor sleeps between attempts), the call ends
\* with the cancellation, no further provider request or refresh exchange is
\* sent for it, and its only remaining step closes its client.
C24_CancellationStopsTheCall == []C24_State /\ [][C24_Step]_vars

C24_Witness ==
    \E c \in CallIds :
        /\ net[c].cancelled /\ pc[c] = "done" /\ net[c].closed = 1
        /\ result[c].kind = "Cancelled"
        /\ net[c].sleeps = 1 /\ net[c].requests = 2 /\ resp[c] = NoResp

C24_WitnessSleeping ==
    \E c \in CallIds :
        /\ net[c].cancelled /\ pc[c] = "done" /\ net[c].closed = 1
        /\ net[c].sleeps = 0 /\ net[c].requests = 1 /\ resp[c].status = 503

\* backoff_factor * 2^(n-1) and a quarter of a second, in eighths of a second.
BackoffBase(n) == BackoffFactor * 2 ^ (n - 1)
Quarter == Exact(2)
Plus(a, b) == Val(a.e + b.e, a.off + b.off)

NoRetryAfter(s) == s.outcome = "slept" /\ s.header.kind = "absent"

\* C25 (as claimed): without a Retry-After header the delay slept after
\* attempt n lies in [backoff_factor * 2^(n-1), backoff_factor * 2^(n-1) + 0.25).
C25_DelayInHalfOpenRange ==
    NoRetryAfter(slept) =>
        /\ Leq(Exact(BackoffBase(slept.attempt)), slept.delay)
        /\ Less(slept.delay, Plus(Exact(BackoffBase(slept.attempt)), Quarter))

\* C25 (amended): without a Retry-After header the delay slept after attempt
\* n lies in the closed range [backoff_factor * 2^(n-1),
\* backoff_factor * 2^(n-1) + 0.25], the upper end being reached when the
\* floating-point sum rounds up; the lower bound doubles with each attempt.
C25_DelayInClosedRange ==
    /\ NoRetryAfter(slept) =>
          /\ Leq(Exact(BackoffBase(slept.attempt)), slept.delay)
          /\ Leq(slept.delay, Plus(Exact(BackoffBase(slept.attempt)), Quarter))
    /\ \A n \in SleepAttempts : BackoffBase(n + 1) = 2 * BackoffBase(n)
    /\ BackoffBase(1) = BackoffFactor

C25_Witness ==
    /\ NoRetryAfter(slept)
    /\ slept.attempt = 3 /\ slept.status = 503
    /\ slept.delay = Exact(BackoffBase(3) + 2)

CarriesRetryAfter(s) ==
    s.outcome # "none" /\ s.status \in RetryAfterStatuses /\ s.header.kind # "absent"

\* C26: for a 429 or 503 response that carries a Retry-After header the
\* executor sleeps max(retryAfter, computedBackoff): a sleep happens, and it is
\* shorter neither than the header's value nor than the computed backoff.
C26_SleepsMaxOfRetryAfterAndBackoff ==
    CarriesRetryAfter(slept) =>
        /\ slept.outcome = "slept"
        /\ Leq(RetryAfter(slept.header), slept.delay)
        /\ Leq(slept.backoff, slept.delay)
        /\ slept.delay \in {RetryAfter(slept.header), slept.backoff}

\* The same statement for the headers float() parses (empty or a number).
C26_ForParsedHeaders ==
    (CarriesRetryAfter(slept) /\ RetryAfterParses(slept.header.kind)) =>
        /\ slept.outcome = "slept"
        /\ Leq(RetryAfter(slept.header), slept.delay)
        /\ Leq(slept.backoff, slept.delay)
        /\ slept.delay \in {RetryAfter(slept.header), slept.backoff}

\* The Authorization credential the strategy state a yields: the Basic
\* credential for api_key, the bearer token it holds otherwise.
CredentialOf(a) == IF a.method = "api_key" THEN BasicCred ELSE a.access_token

RequestSent(c) == net'[c].requests = net[c].requests + 1

C27_State ==
    \A c \in CallIds :
        net[c].requests > 0 =>
            /\ reqCred[c].accept = "application/json"
            /\ reqCred[c].authorization # NoneVal

C27_Step ==
    \A c \in CallIds :
        RequestSent(c) =>
            /\ reqCred'[c].accept = "application/json"
            /\ reqCred'[c].authorization = CredentialOf(auth'[c])
            /\ pc[c] = "refreshing"
                  => /\ reqCred'[c].authorization = net[c].refreshes
                     /\ reqCred'[c].authorization # auth[c].access_token

\* C27: every provider request of _request, on the first attempt and on every
\* retry, carries Accept: application/json and the Authorization credential
\* of the strategy's state at that attempt; a request sent after a successful
\* refresh carries the token that refresh issued, never the one it replaced.
C27_RequestHeaders == []C27_State /\ [][C27_Step]_vars

C27_Witness ==
    \E c \in CallIds :
        /\ pc[c] = "inflight" /\ attempt[c] = 2 /\ net[c].requests = 2
        /\ net[c].refreshes = 2
        /\ reqCred[c] = [accept |-> "application/json", authorization |-> 2]
        /\ call[c].config.access_token

\* Reading a payload the way the claims speak of it: the value at a key, null
\* when the key, or the object holding it, is absent or null; and "a, or b
\* when a is absent".
At(v, k) ==
    IF IsDict(v) /\ k \in DOMAIN v.items /\ v.items[k] # Absent THEN v.items[k] ELSE Null
Either(a, b) == IF a # Null THEN a ELSE b

MappedBy(fn) == mapped.fn = fn

\* C28: map_issue_to_item maps a Jira issue to id = the issue id (the issue
\* key when the id is absent), name = fields.summary, containerId = the project
\* key (the project id when the key is absent), meta.status = the status name
\* and meta.key = the issue key.
C28_IssueToItem ==
    (MappedBy("jira.map_issue_to_item") /\ mapped.payload.items.fields # Null) =>
        LET issue == mapped.payload
            fields == At(issue, "fields")
            proj == At(fields, "project")
        IN  /\ mapped.out # Raised
            /\ mapped.out.id = Either(At(issue, "id"), At(issue, "key"))
            /\ mapped.out.name = At(fields, "summary")
            /\ mapped.out.containerId = Either(At(proj, "key"), At(proj, "id"))
            /\ mapped.out.meta.status = At(At(fields, "status"), "name")
            /\ mapped.out.meta.key = At(issue, "key")

\* The minimal payload of the claim and of test_jira_issue_to_item_minimal.
C28_Witness ==
    /\ MappedBy("jira.map_issue_to_item")
    /\ mapped.payload =
          Dict([id |-> StrVal("I-1"), key |-> StrVal("PRJ-1"),
                fields |-> Dict([summary |-> StrVal("Fix bug"),
                                 project |-> Dict([key |-> StrVal("PRJ"), id |-> Absent]),
                                 status |-> Dict([name |-> StrVal("To Do")]),
                                 assignee |-> Null, reporter |-> Absent,
                                 created |-> Absent, updated |-> Absent])])
    /\ mapped.out.id = StrVal("I-1")
    /\ mapped.out.name = StrVal("Fix bug")
    /\ mapped.out.containerId = StrVal("PRJ")
    /\ mapped.out.meta.status = StrVal("To Do")
    /\ mapped.out.meta.key = StrVal("PRJ-1")

IsString(v) == "str" \in DOMAIN v

\* The Confluence comments the claim speaks of: the body is a plain string, a
\* nested storage object, or missing.
ConfluenceCommentMapped ==
    /\ MappedBy("confluence.map_comment_to_unified")
    /\ LET body == At(mapped.payload, "body")
       IN  IsDict(body) => IsDict(At(body, "storage"))

\* C29 (as claimed): the Confluence map_comment_to_unified sets text to
\* body.storage.value for a nested storage body and to the body, unchanged,
\* for a plain string body; id, created and updated are copied from id,
\* createdAt and updatedAt, and author from createdBy.displayName.
C29_CommentAuthorFromDisplayName ==
    ConfluenceCommentMapped =>
        LET comment == mapped.payload
            body == At(comment, "body")
        IN  /\ mapped.out # Raised
            /\ IsDict(body) => mapped.out.text = At(At(body, "storage"), "value")
            /\ IsString(body) => mapped.out.text = body
            /\ mapped.out.id = At(comment, "id")
            /\ mapped.out.created = At(comment, "createdAt")
            /\ mapped.out.updated = At(comment, "updatedAt")
            /\ mapped.out.author = At(At(comment, "createdBy"), "displayName")

\* C29 (amended): as above, except that author is createdBy.displayName, or
\* createdBy.name when the display name is absent.
C29_CommentAuthorFallsBackToName ==
    ConfluenceCommentMapped =>
        LET comment == mapped.payload
            body == At(comment, "body")
            by == At(comment, "createdBy")
        IN  /\ mapped.out # Raised
            /\ IsDict(body) => mapped.out.text = At(At(body, "storage"), "value")
            /\ IsString(body) => mapped.out.text = body
            /\ mapped.out.id = At(comment, "id")
            /\ mapped.out.created = At(comment, "createdAt")
            /\ mapped.out.updated = At(comment, "updatedAt")
            /\ mapped.out.author = Either(At(by, "displayName"), At(by, "name"))

C29_Witness ==
    /\ MappedBy("confluence.map_comment_to_unified")
    /\ mapped.payload.items.body = Dict([storage |-> Dict([value |-> StrVal("<p>Hello</p>")])])
    /\ mapped.payload.items.createdBy = Dict([displayName |-> Absent, name |-> StrVal("bob")])
    /\ mapped.out.text = StrVal("<p>Hello</p>")
    /\ mapped.out.author = StrVal("bob")
    /\ mapped.out.id = StrVal("c2")

C29_WitnessPlainString ==
    /\ MappedBy("confluence.map_comment_to_unified")
    /\ mapped.payload.items.body = StrVal("")
    /\ mapped.out.text = StrVal("")
    /\ mapped.out.author = StrVal("Alice")

\* The output sub-fields that must be null because the optional object they
\* are read from is absent or null in the payload.
NullWhereOptionalIsMissing ==
    LET p == mapped.payload
        out == mapped.out
    IN  /\ (MappedBy("jira.map_project_to_container") /\ At(p, "lead") = Null) =>
              out.meta.lead = Null
        /\ MappedBy("jira.map_issue_to_item") =>
              LET fields == At(p, "fields")
              IN  /\ fields = Null => out.name = Null
                  /\ At(fields, "project") = Null => out.containerId = Null
                  /\ At(fields, "status") = Null => out.meta.status = Null
                  /\ At(fields, "assignee") = Null => out.meta.assignee = Null
                  /\ At(fields, "reporter") = Null => out.meta.reporter = Null
        /\ MappedBy("jira.map_comment_to_unified") =>
              /\ At(p, "author") = Null => out.author = Null
              /\ At(p, "body") = Null => out.text = Null
        /\ MappedBy("confluence.map_page_to_item") =>
              /\ At(p, "space") = Null => out.containerId = Null
              /\ At(p, "parent") = Null => out.meta.parentId = Null
              /\ At(p, "version") = Null => out.meta.version = Null
        /\ MappedBy("confluence.map_comment_to_unified") =>
              /\ At(p, "createdBy") = Null => out.author = Null
              /\ At(p, "body") = Null => out.text = Null
              /\ (IsDict(At(p, "body")) /\ At(At(p, "body"), "storage") = Null) =>
                    out.text = Null

\* C30: every mapping function (Jira project, issue and comment; Confluence
\* space, page and comment) returns, and never raises, when an optional field
\* or nested optional object of the payload is absent or null; the output
\* sub-field read from it is then null.
C30_MappingNeverRaises ==
    mapped # NoMap => (mapped.out # Raised /\ NullWhereOptionalIsMissing)

\* The two payload shapes on which a mapping function raises: a Jira issue whose
\* "fields" is an explicit null and a Confluence comment whose body.storage is
\* an explicit null.
ExplicitNullUnderDefault ==
    \/ /\ MappedBy("jira.map_issue_to_item")
       /\ mapped.payload.items.fields = Null
    \/ /\ MappedBy("confluence.map_comment_to_unified")
       /\ IsDict(mapped.payload.items.body)
       /\ mapped.payload.items.body.items.storage = Null

\* Outside those two shapes every mapping returns with null sub-fields, and on
\* them it raises.
C30_RaisesExactlyOnExplicitNull ==
    mapped # NoMap =>
        IF ExplicitNullUnderDefault
        THEN mapped.out = Raised
        ELSE mapped.out # Raised /\ NullWhereOptionalIsMissing

C30_WitnessFieldsNull ==
    /\ MappedBy("jira.map_issue_to_item")
    /\ mapped.payload = Dict([id |-> StrVal("I-1"), key |-> Absent, fields |-> Null])
    /\ mapped.out = Raised

C30_WitnessStorageNull ==
    /\ MappedBy("confluence.map_comment_to_unified")
    /\ mapped.payload.items.body = Dict([storage |-> Null])
    /\ mapped.out = Raised

CommentMapped ==
    MappedBy("jira.map_comment_to_unified") \/ MappedBy("confluence.map_comment_to_unified")

\* C31: for every comment payload of either provider on which the mapping
\* returns, the text of the unified comment is a plain string, or null when
\* the comment has no body: a rich-text envelope is reduced to a string and a
\* plain string is passed through unchanged.
C31_TextIsPlainString ==
    (CommentMapped /\ mapped.out # Raised) =>
        LET body == At(mapped.payload, "body")
        IN  /\ IsString(mapped.out.text) \/ mapped.out.text = Null
            /\ body = Null => mapped.out.text = Null
            /\ IsString(body) => mapped.out.text = body

\* A Jira comment whose body is a document-format object: the text is the
\* list of content nodes.
C31_WitnessDocumentBody ==
    /\ MappedBy("jira.map_comment_to_unified")
    /\ mapped.payload.items.body =
          Dict([content |-> ListVal(<<Dict([type |-> StrVal("paragraph")])>>),
                type |-> StrVal("doc")])
    /\ mapped.out.text = ListVal(<<Dict([type |-> StrVal("paragraph")])>>)

\* Apart from Jira bodies that are objects, the text is a string or null.
C31_HoldsForStringsAndStorage ==
    (CommentMapped /\ mapped.out # Raised
       /\ ~(MappedBy("jira.map_comment_to_unified") /\ IsDict(At(mapped.payload, "body")))) =>
        LET body == At(mapped.payload, "body")
        IN  /\ IsString(mapped.out.text) \/ mapped.out.text = Null
            /\ body = Null => mapped.out.text = Null
            /\ IsString(body) => mapped.out.text = body

\* The Python exception class with which a failed call reaches its caller:
\* model_validate raises pydantic's ValidationError (a ValueError); auth_headers,
\* _require, int(cursor) and float(Retry-After) raise ValueError;
\* raise_for_status raises httpx.HTTPStatusError after a refresh, after the
\* retries and in the endpoint method alike; a timeout is re-raised as
\* httpx.TimeoutException.
ExceptionClass(res) ==
    CASE res.kind = "InvalidConfig" -> "ValidationError"
      [] res.kind \in {"MissingCredentials", "NotFound", "BadCursor", "ValueError"} -> "ValueError"
      [] res.kind = "HTTPStatusError" -> "HTTPStatusError"
      [] res.kind = "Timeout" -> "TimeoutException"
      [] res.kind = "DecodeError" -> "JSONDecodeError"
      [] res.kind = "AttributeError" -> "AttributeError"
      [] res.kind = "Cancelled" -> "CancelledError"
      [] OTHER -> "none"

\* The failure kind of the taxonomy a failed call belongs to.
FailureKind(res) ==
    CASE res.kind = "InvalidConfig" -> "InvalidConfig"
      [] res.kind = "MissingCredentials" -> "MissingCredentials"
      [] res.kind = "NotFound" -> "NotFound"
      [] res.kind = "HTTPStatusError" /\ res.src = "token" -> "TokenRefreshFailed"
      [] res.kind = "HTTPStatusError" /\ res.src = "retries" -> "TransientProviderError"
      [] res.kind = "HTTPStatusError" /\ res.src = "provider" -> "ProviderError"
      [] res.kind = "Timeout" -> "Timeout"
      [] OTHER -> "none"

Failed(c) == pc[c] = "done" /\ FailureKind(result[c]) # "none"

\* C32: every failure that reaches the caller of a Connector operation carries
\* a failure kind of the taxonomy that tells it apart from the other kinds:
\* two calls that fail with different kinds never reach their callers as the
\* same error type.
C32_FailureKindsToldApart ==
    \A c, d \in CallIds :
        (Failed(c) /\ Failed(d) /\ FailureKind(result[c]) # FailureKind(result[d]))
            => ExceptionClass(result[c]) # ExceptionClass(result[d])

\* A failed refresh and an exhausted retry budget both reach the caller as
\* httpx.HTTPStatusError.
C32_WitnessSameClass ==
    /\ Failed(1) /\ Failed(2)
    /\ FailureKind(result[1]) = "TokenRefreshFailed"
    /\ FailureKind(result[2]) = "TransientProviderError"
    /\ ExceptionClass(result[1]) = "HTTPStatusError"
    /\ ExceptionClass(result[2]) = "HTTPStatusError"

\* C33: every non-null next cursor returned by the Jira containers, items and
\* comments operations encodes an offset strictly greater than the start
\* offset of the request that produced it, whatever the provider answered.
C33_CursorAdvances ==
    (page # NoPage /\ page.provider = "jira" /\ pnext # Null)
        => ParseInt(pnext.str) > pquery.startAt

\* An empty page of issues with a total beyond startAt: the cursor returned is
\* the offset that was just requested.
C33_WitnessEmptyPage ==
    /\ page # NoPage /\ page.provider = "jira" /\ page.op = "items"
    /\ page.data.count = 0 /\ page.data.startAt = 8 /\ page.data.total = 120
    /\ pquery.startAt = 8
    /\ pnext = StrVal(Str(8))

\* With at least one entry in the page and startAt echoed or left out, the
\* cursor advances.
C33_AdvancesOnNonEmptyPages ==
    (page # NoPage /\ page.provider = "jira" /\ pnext # Null
       /\ page.data.count > 0 /\ page.data.startAt \in {NoneVal, pquery.startAt})
        => ParseInt(pnext.str) > pquery.startAt

WalkEnded == walk # NoWalk /\ walk.ended

\* C34 (as claimed): against a provider that holds n entries and serves each
\* page honestly, with at most page-size entries in it, following the cursors
\* of a Jira list operation visits every entry exactly once, in the provider's
\* order, and ends after finitely many calls with next = null.
C34_WalkVisitsEveryEntry ==
    /\ [](WalkEnded => walk.visited = Entries(walk.n))
    /\ <>WalkEnded

\* C34 (amended): the same, for a provider that fills every page: exactly
\* page-size entries while that many remain, the rest in the last page.
C34_WalkVisitsEveryEntryOfFullPages ==
    /\ []((WalkEnded /\ ~walk.short) => walk.visited = Entries(walk.n))
    /\ [](walk # NoWalk => walk.calls <= walk.n + 1)
    /\ <>WalkEnded

\* Five entries listed three at a time: two calls, all five entries in order.
C34_Witness ==
    /\ WalkEnded /\ ~walk.short
    /\ walk.n = 5 /\ walk.limit = 3 /\ walk.calls = 2
    /\ walk.visited = <<1, 2, 3, 4, 5>>

\* containers served a page shorter than asked for: the walk ends with
\* entries left unvisited.
C34_WitnessShortPage ==
    /\ WalkEnded /\ walk.short /\ walk.op = "containers"
    /\ walk.n = 5 /\ walk.limit = 3 /\ walk.calls = 1
    /\ walk.visited = <<1, 2>>

\* Call c was made with an OAuth2 configuration that carries an access token
\* and a refresh token.
HasBothTokens(c) ==
    /\ call[c].config.auth_method = "oauth2"
    /\ call[c].config.access_token
    /\ call[c].config.refresh_token

C35_State ==
    \A c \in CallIds :
        HasBothTokens(c) =>
            /\ (pc[c] = "try" \/ (pc[c] = "loop" /\ attempt[c] = 0))
                  => /\ auth[c].exp = NoneVal
                     /\ auth[c].access_token = 0
                     /\ NeedsRefresh(auth[c], now)
            /\ net[c].requests > 0
                  => /\ net[c].refreshes > 0
                     /\ reqCred[c].authorization # 0

C35_Step ==
    \A c \in CallIds :
        HasBothTokens(c) =>
            /\ (pc[c] = "loop" /\ attempt[c] = 0 /\ attempt'[c] = 1)
                  => /\ pc'[c] = "refreshing"
                     /\ net'[c].refreshes = 1
                     /\ net'[c].requests = 0
            /\ (net[c].requests = 0 /\ net'[c].requests = 1)
                  => /\ pc[c] = "refreshing" /\ attempt[c] = 1
                     /\ reqCred'[c].authorization = net[c].refreshes

\* C35: an OAuth2 strategy built from a configuration with an access token and
\* a refresh token has no recorded expiry and counts as expired: the first
\* attempt of the call sends a refresh exchange before the first provider
\* request, and that request carries the token the exchange returned, not the
\* configured one.
C35_ConfiguredTokenIsRefreshedFirst == []C35_State /\ [][C35_Step]_vars

C35_Witness ==
    /\ HasBothTokens(1)
    /\ pc[1] = "inflight" /\ attempt[1] = 1
    /\ net[1].refreshes = 1 /\ net[1].requests = 1
    /\ reqCred[1].authorization = 1

\* C36: within one _request call at most one refresh exchange is sent to the
\* token endpoint, however many attempts the call makes and whatever expires_in
\* the token endpoint returns.
C36_AtMostOneRefreshPerRequest ==
    \A c \in CallIds : net[c].refreshes <= 1

\* The token endpoint returned no expires_in and the provider answered every
\* attempt with a retryable status: every attempt sent a refresh exchange.
C36_WitnessRefreshPerAttempt ==
    /\ auth[1].exp = NoneVal
    /\ attempt[1] = DefaultMaxRetries + 1
    /\ net[1].refreshes = DefaultMaxRetries + 1
    /\ net[1].requests = DefaultMaxRetries + 1

C37_State ==
    \A c \in CallIds : result[c].src # "retry_after"

C37_Step ==
    \A c \in CallIds :
        (pc[c] = "inflight" /\ resp'[c].kind = "resp"
            /\ resp'[c].status \in {429, 500, 502, 503, 504}
            /\ attempt[c] <= DefaultMaxRetries)
          => pc'[c] = "sleeping"

\* C37: for every response with a retryable status received while retry budget
\* remains, _request sleeps and goes on to another attempt, whatever the
\* Retry-After header holds (absent, empty, seconds, an HTTP date): the value
\* of the header never makes _request fail.
C37_RetryAfterNeverFails == []C37_State /\ [][C37_Step]_vars

\* A 429/503 whose Retry-After is an HTTP date, on the first attempt: the call
\* ends with ValueError after one request and no sleep.
C37_WitnessHttpDate ==
    /\ Ended(1) /\ attempt[1] = 1
    /\ resp[1].kind = "resp" /\ resp[1].ra = "date"
    /\ result[1].kind = "ValueError" /\ result[1].src = "retry_after"
    /\ net[1].requests = 1 /\ net[1].sleeps = 0

\* The same statement for the header values float() parses.
C37_Parsed ==
    [][\A c \in CallIds :
        (pc[c] = "inflight" /\ resp'[c].kind = "resp"
            /\ resp'[c].status \in {429, 500, 502, 503, 504}
            /\ attempt[c] <= DefaultMaxRetries /\ resp'[c].ra # "date")
          => pc'[c] = "sleeping"]_vars

IdsOf(reg) == { reg[i].connector_id : i \in 1..Len(reg) }

RegisterConnectorsReturned == rret'.op = "register_connectors" /\ rret' # rret

C38_State ==
    /\ Len(registry) = Cardinality(IdsOf(registry))
    /\ rret.op = "register_connectors" => (rret.value <=> IdsOf(registry) = ConnectorIds)

C38_Step ==
    /\ (RegisterConnectorsReturned /\ rret'.value)
          => /\ IdsOf(registry') = ConnectorIds
             /\ Len(registry') = 4
    /\ (RegisterConnectorsReturned /\ ~rret'.value)
          => /\ registry' = registry
             /\ IdsOf(registry') # ConnectorIds
    /\ IdsOf(registry) = ConnectorIds
          => /\ IdsOf(registry') = ConnectorIds
             /\ Len(registry') = 4

\* C38: register_connectors is idempotent on the registry's identifier set:
\* after a call and after any number of further calls the registry holds
\* exactly postgres, salesforce, jira and confluence, one entry each, and the
\* call returns True exactly when all four are registered.
C38_RegisterConnectorsIdempotent == []C38_State /\ [][C38_Step]_vars

\* After the third call: six connectors were registered by the second and
\* third call on top of the first four, and the registry holds four entries.
C38_Witness ==
    /\ rret.op = "register_connectors" /\ rret.value
    /\ Len(regLog) = 8
    /\ Len(registry) = 4
    /\ IdsOf(registry) = ConnectorIds

KnownAuthMethods == {"oauth2", "api_key"}

\* C39: the validation of a Jira or Confluence configuration accepts it only
\* if its auth_method is 'oauth2' or 'api_key', so no provider client is built
\* with any other auth method after a successful validation.
C39_OnlyKnownAuthMethods ==
    \A c \in CallIds :
        /\ pc[c] = "validated" => call[c].config.auth_method \in KnownAuthMethods
        /\ net[c].opened > 0 => auth[c].method \in KnownAuthMethods

\* A configuration with auth_method "basic" passed validation; the client was
\* built and sent the configured access token as a bearer token.
C39_WitnessUnknownMethod ==
    /\ call[1].config.auth_method = "basic"
    /\ AtlassianConfigValid(call[1].config)
    /\ net[1].opened = 1 /\ auth[1].method = "basic"
    /\ net[1].requests = 1 /\ net[1].refreshes = 0
    /\ reqCred[1].authorization = 0

BothDone == script.set /\ pc[JiraCall] = "done" /\ pc[ConfluenceCall] = "done"

\* C40: for the same configuration and the same token-endpoint and provider
\* outcomes, the Jira and the Confluence client end with the same refresh
\* exchanges, provider requests and sleeps and with the same outcome.
C40_ConfluenceMirrorsJira ==
    BothDone =>
        /\ net[JiraCall] = net[ConfluenceCall]
        /\ result[JiraCall] = result[ConfluenceCall]
        /\ auth[JiraCall] = auth[ConfluenceCall]
        /\ reqCred[JiraCall] = reqCred[ConfluenceCall]

\* The token endpoint answers the first exchange with 302 and a JSON body:
\* the Jira call takes the token and sends a request, the Confluence call
\* fails with the status error.
C40_WitnessRedirect ==
    /\ BothDone
    /\ script.tokens[1] = TokenResp(302, TRUE, MaxLife, TRUE)
    /\ net[JiraCall].requests = 1 /\ result[JiraCall].kind = "ok"
    /\ net[ConfluenceCall].requests = 0
    /\ result[ConfluenceCall] = Res("HTTPStatusError", 302, "token")

\* The two clients differ only when the token endpoint answers a refresh
\* exchange with a status below 400 that is no success.
C40_MirrorsUnlessRedirected ==
    (BothDone /\ \A i \in 1..Len(script.tokens) : script.tokens[i].status \notin 300..399) =>
        /\ net[JiraCall] = net[ConfluenceCall]
        /\ result[JiraCall] = result[ConfluenceCall]
        /\ auth[JiraCall] = auth[ConfluenceCall]
        /\ reqCred[JiraCall] = reqCred[ConfluenceCall]

====
